---- MODULE Spec2Model ----
(***************************************************************************)
(* PortfolioManager: the strategy hierarchy and the stock/strategy         *)
(* association of the React client (frontend/src) talking to the FastAPI   *)
(* backend.  The client handlers are translated from the .tsx sources; the *)
(* backend operations are translated from the design document kept in the  *)
(* repository (unnamed/part_000, sections 4.3 and 4.4) and, where the      *)
(* design document is silent, from the specification.                      *)
(*                                                                         *)
(* One browser session drives the system.  A handler is one atomic step:   *)
(* the request it sends, the backend's processing of it and the refetch    *)
(* the handler starts on success.                                          *)
(***************************************************************************)
EXTENDS Integers, FiniteSets, Sequences, TLC

\* ------------------------------------------------------------------ bounds
MaxStrategies == 3
MaxLinkedStrategies == 2
MaxStocks == 1
MaxQuantity == 2
MaxPrice == 2
MaxWriters == 2

\* ------------------------------------------------------- values of the code
\* parent_id: number | null.  null is written 0; ids start at 1.
null == 0

StrategyIds == 1..MaxStrategies
StockIds == 1..MaxStocks
Quantities == 1..MaxQuantity
Prices == 1..MaxPrice

\* ticker strings, as sequences of characters
Digits == {"0", "1", "2", "3", "4", "5", "6", "7", "8", "9"}
Tickers == {<<"7", "2", "0", "3">>, <<"A", "A", "P", "L">>}

\* category labels: "" (none), "Uncategorized" for '未分類', "JapanStock" for
\* '日本株', "USStock" for '米国株'
Categories == {"", "Uncategorized", "JapanStock", "USStock"}
\* the options of the edit row's category select (availableCategories)
SelectableCategories == {"Uncategorized", "JapanStock", "USStock"}

\* stock names: "" (none), "UnknownName" for "不明な銘柄", "Known" for a real name
StockNames == {"", "UnknownName", "Known"}

\* what the user typed as a strategy name, seen from the store: nothing, a
\* name no stored strategy has, or the name of a stored strategy
StrategyNameInputs == {"empty", "fresh", "taken"}

Routes == {"/", "/strategies", "/add-stock"}

VARIABLES
    dbStrategies,      \* backend: rows of the strategies table, [id, parent_id]
    nextStrategyId,    \* backend: next strategy id
    dbStocks,          \* backend: rows of the stocks table with their strategy_ids
    nextStockId,       \* backend: next stock id
    route,             \* the route shown
    stocks,            \* App: useState<Stock[]>
    allStrategies,     \* StockListPage: useState<Strategy[]>
    allStrategiesLoaded, \* StockListPage: fetchAllStrategies has answered
    editingStockId,    \* StockListPage: useState<number | null>
    editingSelectedParentStrategyIds, \* StockListPage
    editingSelectedChildStrategyIds,  \* StockListPage
    strategies,        \* StrategyPage: useState<Strategy[]>
    lastOp,            \* history: the handler that ran last and its outcome
    strategyIdsOmitted, \* backend: what update_stock does with a body without strategy_ids
    links,             \* replace: the committed strategy links of one stock
    tx,                \* replace: the open transaction of each writer
    lockHolder,        \* replace: the writer holding the stock's write lock
    observed,          \* replace: what the last reader of the stock saw
    completeSets,      \* replace history: the link sets committed so far
    editingArrays,     \* StockListPage: the two selections as the arrays they are
    submittedArray,    \* StockListPage: what handleUpdateSubmit made of the arrays
    livePrices,        \* App: useState<{[stockId: number]: number}>
    dbAllocations,     \* backend: the target allocations, keyed by category
    allocations,       \* App: useState<TargetAllocation[]>
    pieChartData,      \* AssetCompositionPage: useMemo
    currentAllocation, \* AssetAllocationPage: useMemo
    combinedAllocationData, \* AssetAllocationPage: useMemo
    isLoadingPrices,   \* App: useState(false)
    refreshesInFlight, \* App: the calls of handleRefreshPrices awaiting their answer
    refreshesStarted,  \* history: how many calls of handleRefreshPrices were made
    refreshesSucceeded, \* history: the calls of handleRefreshPrices that were answered
    fetchStatus,       \* App: where fetchStocks and fetchAllocations of the mount effect are
    stockDetailPage,   \* StockDetailPage: the route's ticker and the component's state
    detailFetches,     \* StockDetailPage: the calls of fetchStockDetails awaiting their answer
    detailFetchesStarted, \* history: how many calls of fetchStockDetails were made
    rendering          \* StrategyPage: the calls of renderStrategies open and the rows returned

vars == <<dbStrategies, nextStrategyId, dbStocks, nextStockId, route, stocks,
          allStrategies, allStrategiesLoaded, editingStockId,
          editingSelectedParentStrategyIds, editingSelectedChildStrategyIds,
          strategies, lastOp, strategyIdsOmitted,
          links, tx, lockHolder, observed, completeSets,
          editingArrays, submittedArray,
          livePrices, dbAllocations, allocations, pieChartData,
          currentAllocation, combinedAllocationData,
          isLoadingPrices, refreshesInFlight, refreshesStarted, refreshesSucceeded,
          fetchStatus, stockDetailPage, detailFetches, detailFetchesStarted,
          rendering>>

refreshVars == <<isLoadingPrices, refreshesInFlight, refreshesStarted,
                 refreshesSucceeded, fetchStatus>>
detailVars == <<stockDetailPage, detailFetches, detailFetchesStarted, rendering>>
arrayVars == <<editingArrays, submittedArray>>
allocationVars == <<livePrices, dbAllocations, allocations, pieChartData,
                    currentAllocation, combinedAllocationData>>
replaceVars == <<links, tx, lockHolder, observed, completeSets>>
appVars == <<dbStrategies, nextStrategyId, dbStocks, nextStockId, route, stocks,
             allStrategies, allStrategiesLoaded, editingStockId,
             editingSelectedParentStrategyIds, editingSelectedChildStrategyIds,
             strategies, lastOp, strategyIdsOmitted>>

backendVars == <<dbStrategies, nextStrategyId, dbStocks, nextStockId>>
stockListPageVars == <<allStrategies, allStrategiesLoaded, editingStockId,
                       editingSelectedParentStrategyIds,
                       editingSelectedChildStrategyIds>>

\* ------------------------------------------------------------ row helpers
Ids(rows) == {r.id : r \in rows}
Row(rows, id) == CHOOSE r \in rows : r.id = id
ParentOf(rows, id) == Row(rows, id).parent_id

\* a request or an outcome that names no candidate set
NoRequests == {}

\* the history record of a handler's run: the handler, whether it went through,
\* the error that stopped it, the stock or strategy it is about, the candidate
\* strategy ids and the stock's stored ones before the run, the PUT /stocks
\* requests it sent and the alert it showed
Op(op, ok, error, id, candidate, before, requests, alert) ==
    [op |-> op, ok |-> ok, error |-> error, id |-> id, candidate |-> candidate,
     before |-> before, requests |-> requests, alert |-> alert]

\* ------------------------------------------------------------------ backend
\* validate_strategy_hierarchy(db, strategy_ids): the parent of every selected
\* child strategy is in strategy_ids too
validate_strategy_hierarchy(rows, strategy_ids) ==
    \A id \in strategy_ids :
        (id \in Ids(rows) /\ ParentOf(rows, id) # null)
            => ParentOf(rows, id) \in strategy_ids

\* the strategies a stock row is returned with (joinedload of stock.strategies)
LoadStrategies(rows, strategy_ids) == {r \in rows : r.id \in strategy_ids}

\* GET /stocks/: every stock with its strategies loaded
get_stocks(stockRows, rows) ==
    {[id |-> s.id, ticker |-> s.ticker, name |-> s.name, quantity |-> s.quantity,
      acquisition_price |-> s.acquisition_price, category |-> s.category,
      strategies |-> LoadStrategies(rows, s.strategy_ids)] : s \in stockRows}

\* create_strategy without the check of the parent's own parent_id
create_strategy_any_depth(rows, nextId, nameInput, parent_id) ==
    IF nameInput = "taken"
    THEN [ok |-> FALSE, error |-> "DuplicateName", rows |-> rows, nextId |-> nextId]
    ELSE IF parent_id # null /\ parent_id \notin Ids(rows)
    THEN [ok |-> FALSE, error |-> "NotFound", rows |-> rows, nextId |-> nextId]
    ELSE [ok |-> TRUE, error |-> "",
          rows |-> rows \cup {[id |-> nextId, parent_id |-> parent_id]},
          nextId |-> nextId + 1]

\* POST /strategies/ (create_strategy).  The one-generation limit: when
\* parent_id is given, the parent strategy has no parent_id itself, else 400.
\* The name is required to be unique and the parent to exist.
create_strategy(rows, nextId, nameInput, parent_id) ==
    IF nameInput = "taken"
    THEN [ok |-> FALSE, error |-> "DuplicateName", rows |-> rows, nextId |-> nextId]
    ELSE IF parent_id # null /\ parent_id \notin Ids(rows)
    THEN [ok |-> FALSE, error |-> "NotFound", rows |-> rows, nextId |-> nextId]
    ELSE IF parent_id # null /\ ParentOf(rows, parent_id) # null
    THEN [ok |-> FALSE, error |-> "InvalidHierarchy", rows |-> rows, nextId |-> nextId]
    ELSE [ok |-> TRUE, error |-> "",
          rows |-> rows \cup {[id |-> nextId, parent_id |-> parent_id]},
          nextId |-> nextId + 1]

\* update_strategy without the check of the strategy itself and its children
update_strategy_any_parent(rows, id, nameInput, parent_id) ==
    IF id \notin Ids(rows)
    THEN [ok |-> FALSE, error |-> "NotFound", rows |-> rows]
    ELSE IF nameInput = "taken"
    THEN [ok |-> FALSE, error |-> "DuplicateName", rows |-> rows]
    ELSE IF parent_id # null /\ parent_id \notin Ids(rows)
    THEN [ok |-> FALSE, error |-> "NotFound", rows |-> rows]
    ELSE [ok |-> TRUE, error |-> "",
          rows |-> (rows \ {Row(rows, id)}) \cup {[id |-> id, parent_id |-> parent_id]}]

\* PUT /strategies/{id}: the hierarchy check of create on the new parent_id when
\* it changes, and no parent_id that is the strategy itself or one of its children
update_strategy(rows, id, nameInput, parent_id) ==
    IF id \notin Ids(rows)
    THEN [ok |-> FALSE, error |-> "NotFound", rows |-> rows]
    ELSE IF nameInput = "taken"
    THEN [ok |-> FALSE, error |-> "DuplicateName", rows |-> rows]
    ELSE IF parent_id = ParentOf(rows, id)
    THEN [ok |-> TRUE, error |-> "", rows |-> rows]
    ELSE IF parent_id # null /\ parent_id \notin Ids(rows)
    THEN [ok |-> FALSE, error |-> "NotFound", rows |-> rows]
    ELSE IF parent_id # null
            /\ (\/ parent_id = id
                \/ ParentOf(rows, parent_id) = id
                \/ ParentOf(rows, parent_id) # null)
    THEN [ok |-> FALSE, error |-> "InvalidHierarchy", rows |-> rows]
    ELSE [ok |-> TRUE, error |-> "",
          rows |-> (rows \ {Row(rows, id)}) \cup {[id |-> id, parent_id |-> parent_id]}]

\* the strategies directly under id
ChildrenOf(rows, id) == {r.id : r \in {x \in rows : x.parent_id = id}}

\* the strategies under id, at most n levels down
RECURSIVE DescendantsWithin(_, _, _)
DescendantsWithin(rows, id, n) ==
    IF n = 0 THEN {}
    ELSE ChildrenOf(rows, id)
         \cup UNION {DescendantsWithin(rows, c, n - 1) : c \in ChildrenOf(rows, id)}

\* delete_strategy that removes the strategy and leaves the stocks as they are
delete_strategy_keeps_links(rows, stockRows, id, policy) ==
    IF id \notin Ids(rows)
    THEN [ok |-> FALSE, error |-> "NotFound", rows |-> rows, stocks |-> stockRows]
    ELSE [ok |-> TRUE, error |-> "", rows |-> rows \ {Row(rows, id)}, stocks |-> stockRows]

\* DELETE /strategies/{id}.  policy holds the choices the specification leaves
\* open.  links: "InUse" rejects while a stock references a strategy that is to
\* go, "cascade" removes the reference from every stock.  children: what
\* becomes of the strategies under the deleted one, "keep" leaves them with
\* their parent_id, "detach" makes them top-level, "remove" deletes them too.
delete_strategy(rows, stockRows, id, policy) ==
    LET doomed == IF policy.children = "remove"
                  THEN {id} \cup DescendantsWithin(rows, id, Cardinality(rows))
                  ELSE {id}
    IN IF id \notin Ids(rows)
       THEN [ok |-> FALSE, error |-> "NotFound", rows |-> rows, stocks |-> stockRows]
       ELSE IF policy.links = "InUse" /\ \E s \in stockRows : s.strategy_ids \cap doomed # {}
       THEN [ok |-> FALSE, error |-> "InUse", rows |-> rows, stocks |-> stockRows]
       ELSE [ok |-> TRUE, error |-> "",
             rows |-> {IF r.parent_id = id /\ policy.children = "detach"
                       THEN [r EXCEPT !.parent_id = null] ELSE r :
                       r \in {x \in rows : x.id \notin doomed}},
             stocks |-> {[s EXCEPT !.strategy_ids = @ \ doomed] : s \in stockRows}]

\* the strategy_ids of a request body; a body without the field names none
\* a body without strategy_ids: the links are cleared (the field defaults to
\* the empty list) or left as they are (the field is optional and skipped)
OmittedPolicies == {"clear", "keep"}

CandidateOf(body) == IF body.has_strategy_ids THEN body.strategy_ids ELSE {}

\* POST /stocks/ (create_stock): validate_strategy_hierarchy, then the stock is
\* stored with the strategies of strategy_ids
create_stock(stockRows, rows, nextId, body) ==
    IF ~(CandidateOf(body) \subseteq Ids(rows))
    THEN [ok |-> FALSE, error |-> "NotFound", stocks |-> stockRows, nextId |-> nextId]
    ELSE IF ~validate_strategy_hierarchy(rows, CandidateOf(body))
    THEN [ok |-> FALSE, error |-> "InvalidHierarchy", stocks |-> stockRows, nextId |-> nextId]
    ELSE [ok |-> TRUE, error |-> "",
          stocks |-> stockRows \cup
              {[id |-> nextId, ticker |-> body.ticker, name |-> body.name,
                quantity |-> body.quantity,
                acquisition_price |-> body.acquisition_price,
                category |-> body.category,
                strategy_ids |-> CandidateOf(body)]},
          nextId |-> nextId + 1]

\* update_stock without the call of validate_strategy_hierarchy
update_stock_unvalidated(stockRows, rows, stock_id, body) ==
    IF stock_id \notin Ids(stockRows) \/ ~(CandidateOf(body) \subseteq Ids(rows))
    THEN [ok |-> FALSE, error |-> "NotFound", stocks |-> stockRows]
    ELSE [ok |-> TRUE, error |-> "",
          stocks |-> (stockRows \ {Row(stockRows, stock_id)}) \cup
              {[id |-> stock_id, ticker |-> body.ticker, name |-> body.name,
                quantity |-> body.quantity,
                acquisition_price |-> body.acquisition_price,
                category |-> body.category,
                strategy_ids |-> IF body.has_strategy_ids THEN body.strategy_ids
                                 ELSE IF strategyIdsOmitted = "keep"
                                 THEN Row(stockRows, stock_id).strategy_ids
                                 ELSE {}]}]

\* PUT /stocks/{stock_id} (update_stock): validate_strategy_hierarchy before the
\* update; the update replaces the fields and the strategy links (the existing
\* ones are cleared, the new ones added)
update_stock(stockRows, rows, stock_id, body) ==
    IF stock_id \notin Ids(stockRows) \/ ~(CandidateOf(body) \subseteq Ids(rows))
    THEN [ok |-> FALSE, error |-> "NotFound", stocks |-> stockRows]
    ELSE IF ~body.has_strategy_ids /\ strategyIdsOmitted = "keep"
    THEN [ok |-> TRUE, error |-> "",
          stocks |-> (stockRows \ {Row(stockRows, stock_id)}) \cup
              {[id |-> stock_id, ticker |-> body.ticker, name |-> body.name,
                quantity |-> body.quantity,
                acquisition_price |-> body.acquisition_price,
                category |-> body.category,
                strategy_ids |-> Row(stockRows, stock_id).strategy_ids]}]
    ELSE IF ~validate_strategy_hierarchy(rows, CandidateOf(body))
    THEN [ok |-> FALSE, error |-> "InvalidHierarchy", stocks |-> stockRows]
    ELSE [ok |-> TRUE, error |-> "",
          stocks |-> (stockRows \ {Row(stockRows, stock_id)}) \cup
              {[id |-> stock_id, ticker |-> body.ticker, name |-> body.name,
                quantity |-> body.quantity,
                acquisition_price |-> body.acquisition_price,
                category |-> body.category,
                strategy_ids |-> CandidateOf(body)]}]

\* DELETE /stocks/{stock_id}
delete_stock(stockRows, stock_id) ==
    IF stock_id \notin Ids(stockRows)
    THEN [ok |-> FALSE, error |-> "NotFound", stocks |-> stockRows]
    ELSE [ok |-> TRUE, error |-> "", stocks |-> stockRows \ {Row(stockRows, stock_id)}]

\* ------------------------------------------------------------ App.tsx
\* /^\d+$/.test(ticker)
isJapaneseStock(ticker) == Len(ticker) > 0 /\ \A i \in 1..Len(ticker) : ticker[i] \in Digits

\* fetchStocks, the processing of one fetched stock: the name and the category
\* are completed and needsUpdate says whether the stock is sent back
NeedsName(stock) == stock.name = "" \/ stock.name = "UnknownName"
NeedsCategory(stock) == stock.category = "" \/ stock.category = "Uncategorized"

CorrectedName(stock, nameFetched) ==
    IF NeedsName(stock)
    THEN (IF nameFetched THEN "Known" ELSE "UnknownName")
    ELSE stock.name

\* a fetch that leaves the category as it was fetched
FetchedCategory(stock) == stock.category

CorrectedCategory(stock) ==
    IF NeedsCategory(stock)
    THEN (IF isJapaneseStock(stock.ticker) THEN "JapanStock" ELSE "USStock")
    ELSE stock.category

updatedStock(stock, nameFetched) ==
    [stock EXCEPT !.name = CorrectedName(stock, nameFetched),
                  !.category = CorrectedCategory(stock)]

needsUpdate(stock, nameFetched) ==
    (NeedsName(stock) /\ nameFetched) \/ NeedsCategory(stock)

\* the body of fetchStocks' axios.put: the stock as fetched and corrected.  It
\* carries the field strategies (Strategy objects) and no field strategy_ids.
FetchStocksPutBody(stock) ==
    [ticker |-> stock.ticker, name |-> stock.name, quantity |-> stock.quantity,
     acquisition_price |-> stock.acquisition_price, category |-> stock.category,
     has_strategy_ids |-> FALSE, strategy_ids |-> {}]

\* a request of the history: who sent it, for which stock, its body, and the
\* Association Set the sender means the stock to have
Request(sender, stock_id, body, desired) ==
    [sender |-> sender, stock_id |-> stock_id, body |-> body, desired |-> desired]

\* the stocks fetchStocks sends back, given the ids whose name lookup answers
FetchStocksUpdates(fetched, namesFetched) ==
    {updatedStock(s, s.id \in namesFetched) :
        s \in {t \in fetched : needsUpdate(t, t.id \in namesFetched)}}

RECURSIVE ApplyPuts(_, _, _)
ApplyPuts(stockRows, rows, puts) ==
    IF puts = {} THEN stockRows
    ELSE LET p == CHOOSE q \in puts : \A o \in puts : q.id <= o.id
         IN ApplyPuts(update_stock(stockRows, rows, p.id, FetchStocksPutBody(p)).stocks,
                      rows, puts \ {p})

\* fetchStocks: GET /stocks/, the corrections sent back, setStocks(finalStocks)
fetchStocks(stockRows, rows, namesFetched) ==
    LET fetched == get_stocks(stockRows, rows)
        puts == FetchStocksUpdates(fetched, namesFetched)
    IN [dbStocks |-> ApplyPuts(stockRows, rows, puts),
        stocks |-> {updatedStock(s, s.id \in namesFetched) : s \in fetched},
        requests |-> {Request("fetchStocks", p.id, FetchStocksPutBody(p), Ids(p.strategies))
                        : p \in puts}]

\* ------------------------------------------------------ StockListPage.tsx
\* handleEditClick: the stock's strategies split by parent_id === null
currentParentStrategyIds(stock) == {s.id : s \in {t \in stock.strategies : t.parent_id = null}}
currentChildStrategyIds(stock) == {s.id : s \in {t \in stock.strategies : t.parent_id # null}}

\* the options of the parent select and of the child select of the edit row
ParentOptions(all) == {s.id : s \in {t \in all : t.parent_id = null}}
ChildOptions(all, parentIds) ==
    {s.id : s \in {t \in all : t.parent_id # null /\ t.parent_id \in parentIds}}

\* a parent change that leaves the child selections as they were
KeptAllChildIds(all, prev, ids) == prev

\* handleEditingParentStrategyChange: the child selections kept are those found
\* in allStrategies with their parent among the new parent selections
KeptChildIds(all, prev, ids) ==
    {childId \in prev : childId \in Ids(all) /\ ParentOf(all, childId) \in ids}

\* handleUpdateSubmit, the frontend validation: every selected child strategy
\* found in allStrategies with a parent_id has that parent among the selected
\* parent strategies
FrontendValidation(all, parentIds, childIds) ==
    \A childId \in childIds :
        ~(/\ childId \in Ids(all)
          /\ ParentOf(all, childId) # null
          /\ ParentOf(all, childId) \notin parentIds)

\* [...new Set([...parents, ...children])]
allSelectedStrategyIds(parentIds, childIds) == parentIds \cup childIds

\* UpdateSubmitBody leaving strategy_ids out when nothing is selected
UpdateSubmitBodyOmitsEmpty(form, parentIds, childIds) ==
    [ticker |-> form.ticker, name |-> form.name, quantity |-> form.quantity,
     acquisition_price |-> form.acquisition_price, category |-> form.category,
     has_strategy_ids |-> (parentIds \cup childIds) # {},
     strategy_ids |-> parentIds \cup childIds]

\* the body of handleUpdateSubmit's axios.put
UpdateSubmitBody(form, parentIds, childIds) ==
    [ticker |-> form.ticker, name |-> form.name, quantity |-> form.quantity,
     acquisition_price |-> form.acquisition_price, category |-> form.category,
     has_strategy_ids |-> TRUE,
     strategy_ids |-> allSelectedStrategyIds(parentIds, childIds)]

\* what the edit row's inputs can hold at submit: editFormData is the stock
\* (handleEditClick) with the quantity, the price and the category the user set
EditForms(stock) ==
    [ticker : {stock.ticker}, name : {stock.name}, quantity : Quantities,
     acquisition_price : Prices, category : SelectableCategories]

\* ------------------------------------------------------- StrategyPage.tsx
\* renderStrategies(strategyList, parentId): the strategies shown, those under
\* parentId and, recursively, under each of them
RECURSIVE renderStrategies(_, _)
renderStrategies(strategyList, parentId) ==
    LET children == {s \in strategyList : s.parent_id = parentId}
    IN Ids(children) \cup UNION {renderStrategies(strategyList, c.id) : c \in children}

\* the strategies of a list in the order of the list, which is by id
StrategiesInOrder(strategySet) ==
    CHOOSE seq \in [1..Cardinality(strategySet) -> strategySet] :
        \A i, j \in 1..Cardinality(strategySet) : i < j => seq[i].id < seq[j].id

\* the table rows renderStrategies returns, in order: for each strategy under
\* parentId its own row, then the rows of renderStrategies(strategyList,
\* strategy.id, indent + 1)
RECURSIVE renderRows(_, _, _)
RECURSIVE RowsOfChildren(_, _, _, _)
RowsOfChildren(strategyList, children, parentId, indent) ==
    IF children = <<>> THEN <<>>
    ELSE <<[id |-> Head(children).id, under |-> parentId, indent |-> indent]>>
         \o renderRows(strategyList, Head(children).id, indent + 1)
         \o RowsOfChildren(strategyList, Tail(children), parentId, indent)
renderRows(strategyList, parentId, indent) ==
    RowsOfChildren(strategyList,
                   StrategiesInOrder({s \in strategyList : s.parent_id = parentId}),
                   parentId, indent)

\* ------------------------------- StockListPage.tsx, the selections as arrays
\* the elements of an array
Elems(array) == {array[i] : i \in DOMAIN array}

\* [...array] without new Set: the array as it is
Spread(array) == array

\* [...new Set(array)]: each value once, in the order of its first occurrence
RECURSIVE NewSet(_)
NewSet(array) ==
    IF array = <<>> THEN <<>>
    ELSE LET front == NewSet(SubSeq(array, 1, Len(array) - 1))
             last == array[Len(array)]
         IN IF last \in Elems(front) THEN front ELSE Append(front, last)

\* const allSelectedStrategyIds = [...new Set([...parents, ...children])]
allSelectedStrategyIdsArray(parentIds, childIds) == NewSet(parentIds \o childIds)

\* the frontend validation as the loop over the child array it is
FrontendValidationArray(all, parentIds, childIds) ==
    \A i \in DOMAIN childIds :
        ~(/\ childIds[i] \in Ids(all)
          /\ ParentOf(all, childIds[i]) # null
          /\ ParentOf(all, childIds[i]) \notin Elems(parentIds))

NotSubmitted == [submitted |-> FALSE]

\* handleUpdateSubmit over the arrays: the validation, the array sent as
\* strategy_ids, the backend's validation of it and the links stored
handleUpdateSubmitArrays ==
    LET parentIds == editingArrays.parents
        childIds == editingArrays.children
        strategy_ids == allSelectedStrategyIdsArray(parentIds, childIds)
    IN /\ submittedArray = NotSubmitted
       /\ submittedArray' =
              IF ~FrontendValidationArray(allStrategies, parentIds, childIds)
              THEN [submitted |-> TRUE, alerted |-> TRUE, sent |-> FALSE,
                    strategy_ids |-> <<>>, accepted |-> FALSE, stored |-> {}]
              ELSE [submitted |-> TRUE, alerted |-> FALSE, sent |-> TRUE,
                    strategy_ids |-> strategy_ids,
                    accepted |-> validate_strategy_hierarchy(dbStrategies, Elems(strategy_ids)),
                    stored |-> IF validate_strategy_hierarchy(dbStrategies, Elems(strategy_ids))
                               THEN Elems(strategy_ids) ELSE {}]
       /\ UNCHANGED editingArrays

\* the edit row is opened again with other selections
EditArraysAgain(parentIds, childIds) ==
    /\ submittedArray # NotSubmitted
    /\ editingArrays' = [parents |-> parentIds, children |-> childIds]
    /\ submittedArray' = NotSubmitted

\* ------------------------------------------------ the allocation pages
\* livePrices with no entry
NoPrices == [id \in {} |-> 0]

RECURSIVE GCD(_, _)
GCD(a, b) == IF b = 0 THEN a ELSE GCD(b, a % b)

\* the ratio total / totalPortfolioValue, not multiplied by 100
Ratio(total, totalPortfolioValue) ==
    LET g == GCD(total, totalPortfolioValue)
    IN [num |-> total \div g, den |-> totalPortfolioValue \div g]

\* a percentage, (total / totalPortfolioValue) * 100, kept as the exact
\* fraction in lowest terms
Pct(total, totalPortfolioValue) ==
    LET g == GCD(total * 100, totalPortfolioValue)
    IN [num |-> (total * 100) \div g, den |-> totalPortfolioValue \div g]
\* toFixed(2), in hundredths: the nearest, a half rounded up
toFixed2(pct) == (pct.num * 200 + pct.den) \div (2 * pct.den)

\* the number 0 of `|| 0`
Zero == [num |-> 0, den |-> 1]
PctLess(a, b) == a.num * b.den < b.num * a.den
PctEq(a, b) == a.num * b.den = b.num * a.den

\* the stocks in the order GET /stocks/ returns them
StocksInOrder(stockSet) ==
    CHOOSE seq \in [1..Cardinality(stockSet) -> stockSet] :
        \A i, j \in 1..Cardinality(stockSet) : i < j => seq[i].id < seq[j].id

\* the value of a stock by the entry of the mapping alone: the live price
\* times the quantity when the mapping has an entry, whatever its value
ValueByEntry(stock, prices) ==
    IF stock.id \in DOMAIN prices
    THEN prices[stock.id] * stock.quantity
    ELSE stock.acquisition_price * stock.quantity

\* const value = livePrice ? livePrice * stock.quantity
\*                         : stock.quantity * stock.acquisition_price
StockValue(stock, prices) ==
    IF stock.id \in DOMAIN prices /\ prices[stock.id] # 0
    THEN prices[stock.id] * stock.quantity
    ELSE stock.quantity * stock.acquisition_price

\* a Map<string, number> as the sequence of its entries, in insertion order
MapKeys(map) == [i \in DOMAIN map |-> map[i].name]
MapHas(map, key) == \E i \in DOMAIN map : map[i].name = key
MapGet(map, key) == map[CHOOSE i \in DOMAIN map : map[i].name = key].value
MapSet(map, key, value) ==
    IF MapHas(map, key)
    THEN [i \in DOMAIN map |-> IF map[i].name = key
                                THEN [name |-> key, value |-> value] ELSE map[i]]
    ELSE Append(map, [name |-> key, value |-> value])

\* stocks.forEach(stock => categoryTotals.set(stock.category,
\*     (categoryTotals.get(stock.category) || 0) + value))
RECURSIVE categoryTotals(_, _)
categoryTotals(stockSeq, prices) ==
    IF stockSeq = <<>> THEN <<>>
    ELSE LET map == categoryTotals(SubSeq(stockSeq, 1, Len(stockSeq) - 1), prices)
             stock == stockSeq[Len(stockSeq)]
             before == IF MapHas(map, stock.category)
                       THEN MapGet(map, stock.category) ELSE 0
         IN MapSet(map, stock.category, before + StockValue(stock, prices))

\* totalPortfolioValue += value
RECURSIVE totalPortfolioValue(_, _)
totalPortfolioValue(stockSeq, prices) ==
    IF stockSeq = <<>> THEN 0
    ELSE totalPortfolioValue(SubSeq(stockSeq, 1, Len(stockSeq) - 1), prices)
         + StockValue(stockSeq[Len(stockSeq)], prices)

\* AssetCompositionPage, pieChartData: the entries of categoryTotals
pieChartDataOf(stockSet, prices) == categoryTotals(StocksInOrder(stockSet), prices)

\* currentAllocation without the return of the empty Map: an entry for every
\* category also when the total is 0
currentAllocationUnguarded(stockSet, prices) ==
    LET totals == categoryTotals(StocksInOrder(stockSet), prices)
        total == totalPortfolioValue(StocksInOrder(stockSet), prices)
    IN [i \in DOMAIN totals |->
           [name |-> totals[i].name,
            value |-> IF total = 0 THEN Zero ELSE Pct(totals[i].value, total)]]

\* currentAllocation: the empty Map when the total is 0, else the percentage
\* of every category of categoryTotals
currentAllocationOf(stockSet, prices) ==
    LET totals == categoryTotals(StocksInOrder(stockSet), prices)
        total == totalPortfolioValue(StocksInOrder(stockSet), prices)
    IN IF total = 0 THEN <<>>
       ELSE [i \in DOMAIN totals |->
                [name |-> totals[i].name, value |-> Pct(totals[i].value, total)]]

\* allocations.find(a => a.category === category)?.percentage || 0
TargetPercentage(allocs, category) ==
    IF \E i \in DOMAIN allocs : allocs[i].category = category
    THEN allocs[CHOOSE i \in DOMAIN allocs :
                   /\ allocs[i].category = category
                   /\ \A j \in DOMAIN allocs : allocs[j].category = category => i <= j].percentage
    ELSE 0

\* currentAllocation.get(category) || 0
CurrentPercentage(current, category) ==
    IF MapHas(current, category) /\ MapGet(current, category).num # 0
    THEN MapGet(current, category) ELSE Zero

\* the rows left as they are mapped, without the sort
Unsorted(rows) == rows

\* .sort((a, b) => b.currentPercentage - a.currentPercentage): stable, a row
\* goes behind the rows that do not have a smaller currentPercentage
RECURSIVE SortByCurrentDesc(_)
SortByCurrentDesc(rows) ==
    IF rows = <<>> THEN <<>>
    ELSE LET sorted == SortByCurrentDesc(SubSeq(rows, 1, Len(rows) - 1))
             row == rows[Len(rows)]
             ahead == {i \in DOMAIN sorted :
                         ~PctLess(sorted[i].currentPercentage, row.currentPercentage)}
             k == Cardinality(ahead)
         IN SubSeq(sorted, 1, k) \o <<row>> \o SubSeq(sorted, k + 1, Len(sorted))

\* rows for the keys of currentAllocation alone, without the categories of
\* allocations
combinedHeldOnly(current, allocs) ==
    [i \in DOMAIN current |->
        [category |-> current[i].name,
         currentPercentage |-> current[i].value,
         targetPercentage |-> 0]]

\* combinedAllocationData: a row for every category of the Set of the keys of
\* currentAllocation and the categories of allocations, sorted
combinedAllocationDataOf(current, allocs) ==
    LET allCategories == NewSet(MapKeys(current) \o [i \in DOMAIN allocs |-> allocs[i].category])
    IN SortByCurrentDesc(
           [i \in DOMAIN allCategories |->
               [category |-> allCategories[i],
                currentPercentage |-> CurrentPercentage(current, allCategories[i]),
                targetPercentage |-> TargetPercentage(allocs, allCategories[i])]])

\* POST /allocations/: the target of the category is set; a category that has
\* a target is given the new percentage, or the request is refused
DuplicateTargetPolicies == {"upsert", "reject"}
create_allocation(allocs, category, percentage, policy) ==
    IF \E i \in DOMAIN allocs : allocs[i].category = category
    THEN IF policy = "reject"
         THEN [ok |-> FALSE, allocations |-> allocs]
         ELSE [ok |-> TRUE,
               allocations |-> [i \in DOMAIN allocs |->
                   IF allocs[i].category = category
                   THEN [category |-> category, percentage |-> percentage]
                   ELSE allocs[i]]]
    ELSE [ok |-> TRUE,
          allocations |-> Append(allocs, [category |-> category, percentage |-> percentage])]

\* DELETE /allocations/{category}
RECURSIVE WithoutCategory(_, _)
WithoutCategory(allocs, category) ==
    IF allocs = <<>> THEN <<>>
    ELSE LET rest == WithoutCategory(SubSeq(allocs, 1, Len(allocs) - 1), category)
             last == allocs[Len(allocs)]
         IN IF last.category = category THEN rest ELSE Append(rest, last)
delete_allocation(allocs, category) ==
    IF \E i \in DOMAIN allocs : allocs[i].category = category
    THEN [ok |-> TRUE, allocations |-> WithoutCategory(allocs, category)]
    ELSE [ok |-> FALSE, allocations |-> allocs]

\* the pages are rendered again: the memos follow stocks, livePrices, allocations
Render(stockSet, prices, allocs) ==
    /\ pieChartData' = pieChartDataOf(stockSet, prices)
    /\ currentAllocation' = currentAllocationOf(stockSet, prices)
    /\ combinedAllocationData' =
           combinedAllocationDataOf(currentAllocationOf(stockSet, prices), allocs)

\* handleRefreshPrices: GET /stocks/live-prices answers with prices
handleRefreshPrices(prices) ==
    /\ livePrices' = prices
    /\ Render(stocks, prices, allocations)
    /\ lastOp' = Op("handleRefreshPrices", TRUE, "", null, {}, {}, NoRequests, "")
    /\ UNCHANGED <<dbAllocations, allocations>>

\* parseFloat(newAllocPercentage), of the strings of PercentageInputs
parseFloat(str) == IF str = "30" THEN 30 ELSE IF str = "50" THEN 50 ELSE 0

\* handleAllocationSubmit and the fetchAllocations it starts
handleAllocationSubmit(category, percentage, policy) ==
    LET res == create_allocation(dbAllocations, category, parseFloat(percentage), policy)
    IN IF category = "" \/ percentage = ""
       THEN /\ lastOp' = Op("handleAllocationSubmit", FALSE, "InputRequired", null,
                            {}, {}, NoRequests, "AllFieldsRequired")
            /\ UNCHANGED allocationVars
       ELSE IF ~res.ok
       THEN /\ lastOp' = Op("handleAllocationSubmit", FALSE, "Rejected", null,
                            {}, {}, NoRequests, "AllocationAddFailed")
            /\ UNCHANGED allocationVars
       ELSE /\ dbAllocations' = res.allocations
            /\ allocations' = res.allocations
            /\ Render(stocks, livePrices, res.allocations)
            /\ lastOp' = Op("handleAllocationSubmit", TRUE, "", null, {}, {}, NoRequests, "")
            /\ UNCHANGED livePrices

\* handleAllocationDelete, confirmed, and the fetchAllocations it starts
handleAllocationDelete(category) ==
    LET res == delete_allocation(dbAllocations, category)
    IN /\ \E i \in DOMAIN allocations : allocations[i].category = category
       /\ res.ok
       /\ dbAllocations' = res.allocations
       /\ allocations' = res.allocations
       /\ Render(stocks, livePrices, res.allocations)
       /\ lastOp' = Op("handleAllocationDelete", TRUE, "", null, {}, {}, NoRequests, "")
       /\ UNCHANGED livePrices

\* ------------------------------------------- Association Set, replace
\* replace(stock_id, new_ids) as update_stock runs it, in one transaction under
\* the stock's write lock: the existing links are cleared, the new ones added
\* one by one, and the transaction commits; a failure rolls it back.  A reader
\* sees the committed links.
Writers == 1..MaxWriters
\* the strategies the stock's links are drawn from
LinkIds == 1..MaxLinkedStrategies
NoTx == [phase |-> "none", new_ids |-> {}, working |-> {}, prior |-> {}]
TxDone(phase, prior) == [phase |-> phase, new_ids |-> {}, working |-> {}, prior |-> prior]
TxIdle == {"none", "committed", "failed"}

\* a read that sees the open transaction's working links
DirtyReadLinks ==
    IF lockHolder = null THEN links ELSE tx[lockHolder].working

\* what a reader of the stock's links is given
ReadLinks == links

ReplaceBegin(w, new_ids) ==
    /\ tx[w].phase \in TxIdle
    /\ lockHolder = null
    /\ lockHolder' = w
    /\ tx' = [tx EXCEPT ![w] = [phase |-> "clear", new_ids |-> new_ids,
                                working |-> links, prior |-> links]]
    /\ UNCHANGED <<links, observed, completeSets>>

ReplaceClear(w) ==
    /\ tx[w].phase = "clear"
    /\ tx' = [tx EXCEPT ![w] = [@ EXCEPT !.phase = "insert", !.working = {}]]
    /\ UNCHANGED <<links, lockHolder, observed, completeSets>>

ReplaceInsert(w, id) ==
    /\ tx[w].phase = "insert"
    /\ id \in tx[w].new_ids \ tx[w].working
    /\ tx' = [tx EXCEPT ![w] = [@ EXCEPT !.working = @ \cup {id}]]
    /\ UNCHANGED <<links, lockHolder, observed, completeSets>>

\* the links a commit makes visible
CommittedLinks(w) == tx[w].working

ReplaceCommit(w) ==
    /\ tx[w].phase = "insert"
    /\ tx[w].working = tx[w].new_ids
    /\ links' = CommittedLinks(w)
    /\ completeSets' = completeSets \cup {tx[w].new_ids}
    /\ tx' = [tx EXCEPT ![w] = TxDone("committed", tx[w].prior)]
    /\ lockHolder' = null
    /\ UNCHANGED observed

\* the links left after a transaction failed partway
RolledBackLinks(w) == links

ReplaceFail(w) ==
    /\ tx[w].phase \in {"clear", "insert"}
    /\ links' = RolledBackLinks(w)
    /\ tx' = [tx EXCEPT ![w] = TxDone("failed", tx[w].prior)]
    /\ lockHolder' = null
    /\ UNCHANGED <<observed, completeSets>>

\* a reader (GET /stocks/) reads the stock's links
ReadStock ==
    /\ observed' = ReadLinks
    /\ UNCHANGED <<links, tx, lockHolder, completeSets>>

\* ------------------------------------------------------------- the system
\* App before its mount effect has run: no refresh, no fetch
InitRefresh ==
    /\ isLoadingPrices = FALSE
    /\ refreshesInFlight = {}
    /\ refreshesStarted = 0
    /\ refreshesSucceeded = {}
    /\ fetchStatus = [stocks |-> "idle", allocations |-> "idle"]

\* StockDetailPage's useState initial values.  ticker is the stockId of the
\* route; quoteData, profile, metrics, news and error are known by the ticker
\* whose call of fetchStockDetails set them, NoTicker standing for null and for
\* the route that is not a stock's
NoTicker == <<>>
NoNews == [ticker |-> NoTicker, length |-> 0]
Unmounted ==
    [ticker |-> NoTicker, profile |-> NoTicker, metrics |-> NoTicker, news |-> NoNews,
     quoteData |-> NoTicker, loading |-> TRUE, error |-> NoTicker,
     newsCurrentPage |-> 1]
\* StrategyPage before renderStrategies is called
NotRendered == [phase |-> "idle", calls |-> <<>>, rows |-> <<>>]
InitDetail ==
    /\ stockDetailPage = Unmounted
    /\ detailFetches = {}
    /\ detailFetchesStarted = 0
    /\ rendering = NotRendered

Init ==
    /\ dbStrategies = {}
    /\ nextStrategyId = 1
    /\ dbStocks = {}
    /\ nextStockId = 1
    /\ route = "/"
    /\ stocks = {}
    /\ allStrategies = {}
    /\ allStrategiesLoaded = FALSE
    /\ editingStockId = null
    /\ editingSelectedParentStrategyIds = {}
    /\ editingSelectedChildStrategyIds = {}
    /\ strategies = {}
    /\ lastOp = Op("mount", TRUE, "", null, {}, {}, NoRequests, "")
    /\ strategyIdsOmitted \in OmittedPolicies
    /\ links = {}
    /\ tx = [w \in Writers |-> NoTx]
    /\ lockHolder = null
    /\ observed = {}
    /\ completeSets = {{}}
    /\ editingArrays = [parents |-> <<>>, children |-> <<>>]
    /\ submittedArray = NotSubmitted
    /\ livePrices = NoPrices
    /\ dbAllocations = <<>>
    /\ allocations = <<>>
    /\ pieChartData = <<>>
    /\ currentAllocation = <<>>
    /\ combinedAllocationData = <<>>
    /\ InitRefresh
    /\ InitDetail

\* a <Link> of the NavBar is followed: the page shown is unmounted and the new
\* one mounted.  StrategyPage's mount effect fetches the strategies.
NavigateTo(r) ==
    /\ r # route
    /\ route' = r
    /\ allStrategies' = {}
    /\ allStrategiesLoaded' = FALSE
    /\ editingStockId' = null
    /\ editingSelectedParentStrategyIds' = {}
    /\ editingSelectedChildStrategyIds' = {}
    /\ strategies' = IF r = "/strategies" THEN dbStrategies ELSE {}
    /\ lastOp' = Op("navigate", TRUE, "", null, {}, {}, NoRequests, "")
    /\ UNCHANGED <<backendVars, stocks>>

\* the page is loaded again: App is mounted over the stored data, its mount
\* effect runs fetchStocks, and the page of the route is mounted afresh
AppMount(namesFetched) ==
    LET fetch == fetchStocks(dbStocks, dbStrategies, namesFetched)
    IN /\ dbStocks # {}
       /\ dbStocks' = fetch.dbStocks
       /\ stocks' = fetch.stocks
       /\ allStrategies' = {}
       /\ allStrategiesLoaded' = FALSE
       /\ editingStockId' = null
       /\ editingSelectedParentStrategyIds' = {}
       /\ editingSelectedChildStrategyIds' = {}
       /\ strategies' = IF route = "/strategies" THEN dbStrategies ELSE {}
       /\ lastOp' = Op("mount", TRUE, "", null, {}, {}, fetch.requests, "")
       /\ UNCHANGED <<dbStrategies, nextStrategyId, nextStockId, route>>

\* StockListPage's mount effect: fetchAllStrategies answers
fetchAllStrategies ==
    /\ route = "/"
    /\ ~allStrategiesLoaded
    /\ allStrategies' = dbStrategies
    /\ allStrategiesLoaded' = TRUE
    /\ lastOp' = Op("fetchAllStrategies", TRUE, "", null, {}, {}, NoRequests, "")
    /\ UNCHANGED <<backendVars, route, stocks, editingStockId,
                   editingSelectedParentStrategyIds,
                   editingSelectedChildStrategyIds, strategies>>

handleEditClick(stock) ==
    /\ route = "/"
    /\ stock \in stocks
    /\ stock.id # editingStockId
    /\ editingStockId' = stock.id
    /\ editingSelectedParentStrategyIds' = currentParentStrategyIds(stock)
    /\ editingSelectedChildStrategyIds' = currentChildStrategyIds(stock)
    /\ lastOp' = Op("handleEditClick", TRUE, "", stock.id, {}, {}, NoRequests, "")
    /\ UNCHANGED <<backendVars, route, stocks, allStrategies, allStrategiesLoaded,
                   strategies>>

handleCancelClick ==
    /\ route = "/"
    /\ editingStockId # null
    /\ editingStockId' = null
    /\ editingSelectedParentStrategyIds' = {}
    /\ editingSelectedChildStrategyIds' = {}
    /\ lastOp' = Op("handleCancelClick", TRUE, "", null, {}, {}, NoRequests, "")
    /\ UNCHANGED <<backendVars, route, stocks, allStrategies, allStrategiesLoaded,
                   strategies>>

handleEditingParentStrategyChange(ids) ==
    /\ route = "/"
    /\ editingStockId # null
    /\ ids \subseteq ParentOptions(allStrategies)
    /\ ids # editingSelectedParentStrategyIds
    /\ editingSelectedParentStrategyIds' = ids
    /\ editingSelectedChildStrategyIds' =
           KeptChildIds(allStrategies, editingSelectedChildStrategyIds, ids)
    /\ lastOp' = Op("handleEditingParentStrategyChange", TRUE, "", editingStockId,
                    {}, {}, NoRequests, "")
    /\ UNCHANGED <<backendVars, route, stocks, allStrategies, allStrategiesLoaded,
                   editingStockId, strategies>>

handleEditingChildStrategyChange(ids) ==
    /\ route = "/"
    /\ editingStockId # null
    /\ editingSelectedParentStrategyIds # {}
    /\ ids \subseteq ChildOptions(allStrategies, editingSelectedParentStrategyIds)
    /\ ids # editingSelectedChildStrategyIds
    /\ editingSelectedChildStrategyIds' = ids
    /\ lastOp' = Op("handleEditingChildStrategyChange", TRUE, "", editingStockId,
                    {}, {}, NoRequests, "")
    /\ UNCHANGED <<backendVars, route, stocks, allStrategies, allStrategiesLoaded,
                   editingStockId, editingSelectedParentStrategyIds, strategies>>

\* the alert of the frontend validation followed by the reset of the edit session
UpdateSubmitAlertClosesEdit(candidate) ==
    /\ lastOp' = Op("handleUpdateSubmit", FALSE, "FrontendValidation", editingStockId,
                    candidate, Row(dbStocks, editingStockId).strategy_ids, NoRequests,
                    "ParentStrategyNotSelected")
    /\ editingStockId' = null
    /\ editingSelectedParentStrategyIds' = {}
    /\ editingSelectedChildStrategyIds' = {}
    /\ UNCHANGED <<backendVars, route, stocks, allStrategies, allStrategiesLoaded,
                   strategies>>

\* handleUpdateSubmit, the return after the alert of the frontend validation:
\* nothing is sent and no state is set
UpdateSubmitAlertReturn(candidate) ==
    /\ lastOp' = Op("handleUpdateSubmit", FALSE, "FrontendValidation", editingStockId,
                    candidate, Row(dbStocks, editingStockId).strategy_ids, NoRequests,
                    "ParentStrategyNotSelected")
    /\ UNCHANGED <<backendVars, route, stocks, stockListPageVars, strategies>>

\* handleUpdateSubmit, the catch of a failed axios.put: an alert, no state is set
UpdateSubmitCatch(res, candidate, request) ==
    /\ lastOp' = Op("handleUpdateSubmit", FALSE, res.error, editingStockId, candidate,
                    Row(dbStocks, editingStockId).strategy_ids, {request},
                    "StockUpdateFailed")
    /\ dbStocks' = res.stocks
    /\ UNCHANGED <<dbStrategies, nextStrategyId, nextStockId, route, stocks,
                   stockListPageVars, strategies>>

\* handleUpdateSubmit after the axios.put answered: the edit session is closed
\* and fetchStocks runs
UpdateSubmitDone(fetch, candidate, request) ==
    /\ dbStocks' = fetch.dbStocks
    /\ stocks' = fetch.stocks
    /\ editingStockId' = null
    /\ editingSelectedParentStrategyIds' = {}
    /\ editingSelectedChildStrategyIds' = {}
    /\ lastOp' = Op("handleUpdateSubmit", TRUE, "", editingStockId, candidate,
                    Row(dbStocks, editingStockId).strategy_ids,
                    {request} \cup fetch.requests, "")
    /\ UNCHANGED <<dbStrategies, nextStrategyId, nextStockId, route,
                   allStrategies, allStrategiesLoaded, strategies>>

\* handleUpdateSubmit.  form is what the edit row's inputs hold; namesFetched
\* are the stocks whose name lookup answers in the fetchStocks that follows.
handleUpdateSubmit(form, namesFetched) ==
    /\ route = "/"
    /\ editingStockId # null
    /\ form \in EditForms(Row(stocks, editingStockId))
    /\ LET parentIds == editingSelectedParentStrategyIds
           childIds == editingSelectedChildStrategyIds
           candidate == allSelectedStrategyIds(parentIds, childIds)
           body == UpdateSubmitBody(form, parentIds, childIds)
           request == Request("handleUpdateSubmit", editingStockId, body, candidate)
           res == update_stock(dbStocks, dbStrategies, editingStockId, body)
           fetch == fetchStocks(res.stocks, dbStrategies, namesFetched)
       IN IF ~FrontendValidation(allStrategies, parentIds, childIds)
          THEN UpdateSubmitAlertReturn(candidate)
          ELSE IF ~res.ok
          THEN UpdateSubmitCatch(res, candidate, request)
          ELSE UpdateSubmitDone(fetch, candidate, request)

\* handleStockDelete, confirmed
handleStockDelete(stockId, namesFetched) ==
    /\ route = "/"
    /\ stockId \in Ids(stocks)
    /\ stockId # editingStockId
    /\ LET res == delete_stock(dbStocks, stockId)
           fetch == fetchStocks(res.stocks, dbStrategies, namesFetched)
       IN IF ~res.ok
          THEN /\ lastOp' = Op("handleStockDelete", FALSE, res.error, stockId, {}, {},
                               NoRequests, "StockDeleteFailed")
               /\ UNCHANGED <<backendVars, route, stocks, stockListPageVars, strategies>>
          ELSE /\ dbStocks' = fetch.dbStocks
               /\ stocks' = fetch.stocks
               /\ lastOp' = Op("handleStockDelete", TRUE, "", stockId, {}, {},
                               fetch.requests, "")
               /\ UNCHANGED <<dbStrategies, nextStrategyId, nextStockId, route,
                              stockListPageVars, strategies>>

\* ------------------------------------------------------- StockFormPage.tsx
\* the body of handleStockSubmit's axios.post: no category, no strategy_ids
StockSubmitBody(ticker, quantity, price) ==
    [ticker |-> ticker, name |-> "", quantity |-> quantity,
     acquisition_price |-> price, category |-> "",
     has_strategy_ids |-> FALSE, strategy_ids |-> {}]

handleStockSubmit(ticker, quantity, price, namesFetched) ==
    /\ route = "/add-stock"
    /\ nextStockId <= MaxStocks
    /\ LET body == StockSubmitBody(ticker, quantity, price)
           res == create_stock(dbStocks, dbStrategies, nextStockId, body)
           fetch == fetchStocks(res.stocks, dbStrategies, namesFetched)
       IN IF ~res.ok
          THEN /\ lastOp' = Op("handleStockSubmit", FALSE, res.error, null, {}, {},
                               NoRequests, "StockAddFailed")
               /\ UNCHANGED <<backendVars, route, stocks, stockListPageVars, strategies>>
          ELSE /\ dbStocks' = fetch.dbStocks
               /\ nextStockId' = res.nextId
               /\ stocks' = fetch.stocks
               /\ lastOp' = Op("handleStockSubmit", TRUE, "", nextStockId, {}, {},
                               fetch.requests, "")
               /\ UNCHANGED <<dbStrategies, nextStrategyId, route, stockListPageVars,
                              strategies>>

\* ------------------------------------------------------- StrategyPage.tsx
\* the options of the create form's parent select, and of the edit row's
ParentSelectOptions(list) == {null} \cup Ids(list)
EditParentSelectOptions(list, id) == {null} \cup (Ids(list) \ {id})

handleCreateStrategy(nameInput, parentId, limit) ==
    /\ route = "/strategies"
    /\ parentId \in ParentSelectOptions(strategies)
    /\ nameInput = "taken" => dbStrategies # {}
    /\ LET res == create_strategy(dbStrategies, nextStrategyId, nameInput, parentId)
       IN IF nameInput = "empty"
          THEN /\ lastOp' = Op("handleCreateStrategy", FALSE, "NameRequired", parentId,
                               {}, {}, NoRequests, "EnterStrategyName")
               /\ UNCHANGED <<backendVars, route, stocks, stockListPageVars, strategies>>
          ELSE IF ~res.ok
          THEN /\ lastOp' = Op("handleCreateStrategy", FALSE, res.error, parentId, {}, {},
                               NoRequests, res.error)
               /\ UNCHANGED <<backendVars, route, stocks, stockListPageVars, strategies>>
          ELSE /\ nextStrategyId <= limit
               /\ dbStrategies' = res.rows
               /\ nextStrategyId' = res.nextId
               /\ strategies' = res.rows
               /\ lastOp' = Op("handleCreateStrategy", TRUE, "", parentId, {}, {},
                               NoRequests, "")
               /\ UNCHANGED <<dbStocks, nextStockId, route, stocks, stockListPageVars>>

handleUpdateStrategy(id, nameInput, parentId) ==
    /\ route = "/strategies"
    /\ id \in renderStrategies(strategies, null)
    /\ parentId \in EditParentSelectOptions(strategies, id)
    /\ nameInput = "taken" => Cardinality(dbStrategies) > 1
    /\ LET res == update_strategy(dbStrategies, id, nameInput, parentId)
       IN IF nameInput = "empty"
          THEN /\ lastOp' = Op("handleUpdateStrategy", FALSE, "NameRequired", id, {}, {},
                               NoRequests, "EnterStrategyName")
               /\ UNCHANGED <<backendVars, route, stocks, stockListPageVars, strategies>>
          ELSE IF ~res.ok
          THEN /\ lastOp' = Op("handleUpdateStrategy", FALSE, res.error, id, {}, {},
                               NoRequests, "StrategyUpdateFailed")
               /\ UNCHANGED <<backendVars, route, stocks, stockListPageVars, strategies>>
          ELSE /\ dbStrategies' = res.rows
               /\ strategies' = res.rows
               /\ lastOp' = Op("handleUpdateStrategy", TRUE, "", id, {}, {}, NoRequests, "")
               /\ UNCHANGED <<nextStrategyId, dbStocks, nextStockId, route, stocks,
                              stockListPageVars>>

\* handleDeleteStrategy, confirmed
handleDeleteStrategy(id, policy) ==
    /\ route = "/strategies"
    /\ id \in renderStrategies(strategies, null)
    /\ LET res == delete_strategy(dbStrategies, dbStocks, id, policy)
       IN IF ~res.ok
          THEN /\ lastOp' = Op("handleDeleteStrategy", FALSE, res.error, id, {}, {},
                               NoRequests, "StrategyDeleteFailed")
               /\ UNCHANGED <<backendVars, route, stocks, stockListPageVars, strategies>>
          ELSE /\ dbStrategies' = res.rows
               /\ dbStocks' = res.stocks
               /\ strategies' = res.rows
               /\ lastOp' = Op("handleDeleteStrategy", TRUE, "", id, {}, {}, NoRequests, "")
               /\ UNCHANGED <<nextStrategyId, nextStockId, route, stocks,
                              stockListPageVars>>

DeletePolicies == [links : {"InUse", "cascade"}, children : {"keep", "detach", "remove"}]

\* every name lookup of fetchStocks answers
AllNamesFetched == StockIds

EditFormInputs ==
    [ticker : Tickers, name : StockNames, quantity : Quantities,
     acquisition_price : Prices, category : SelectableCategories]

Navigate == (\E r \in Routes : NavigateTo(r)) /\ UNCHANGED <<replaceVars, strategyIdsOmitted, arrayVars, allocationVars, refreshVars, detailVars>>
Reload == AppMount(AllNamesFetched) /\ UNCHANGED <<replaceVars, strategyIdsOmitted, arrayVars, allocationVars, refreshVars, detailVars>>
FetchAllStrategies == fetchAllStrategies /\ UNCHANGED <<replaceVars, strategyIdsOmitted, arrayVars, allocationVars, refreshVars, detailVars>>
EditClick == (\E stock \in stocks : handleEditClick(stock)) /\ UNCHANGED <<replaceVars, strategyIdsOmitted, arrayVars, allocationVars, refreshVars, detailVars>>
CancelClick == handleCancelClick /\ UNCHANGED <<replaceVars, strategyIdsOmitted, arrayVars, allocationVars, refreshVars, detailVars>>
ParentStrategyChange == (\E ids \in SUBSET StrategyIds : handleEditingParentStrategyChange(ids)) /\ UNCHANGED <<replaceVars, strategyIdsOmitted, arrayVars, allocationVars, refreshVars, detailVars>>
ChildStrategyChange == (\E ids \in SUBSET StrategyIds : handleEditingChildStrategyChange(ids)) /\ UNCHANGED <<replaceVars, strategyIdsOmitted, arrayVars, allocationVars, refreshVars, detailVars>>
UpdateSubmit == (\E form \in EditFormInputs : handleUpdateSubmit(form, AllNamesFetched)) /\ UNCHANGED <<replaceVars, strategyIdsOmitted, arrayVars, allocationVars, refreshVars, detailVars>>
StockDelete == (\E stockId \in StockIds : handleStockDelete(stockId, AllNamesFetched)) /\ UNCHANGED <<replaceVars, strategyIdsOmitted, arrayVars, allocationVars, refreshVars, detailVars>>
StockSubmit == (\E ticker \in Tickers, quantity \in Quantities, price \in Prices : handleStockSubmit(ticker, quantity, price, AllNamesFetched)) /\ UNCHANGED <<replaceVars, strategyIdsOmitted, arrayVars, allocationVars, refreshVars, detailVars>>
CreateStrategy == (\E nameInput \in StrategyNameInputs, parentId \in {null} \cup StrategyIds : handleCreateStrategy(nameInput, parentId, MaxLinkedStrategies)) /\ UNCHANGED <<replaceVars, strategyIdsOmitted, arrayVars, allocationVars, refreshVars, detailVars>>
UpdateStrategy == (\E id \in StrategyIds, nameInput \in StrategyNameInputs, parentId \in {null} \cup StrategyIds : handleUpdateStrategy(id, nameInput, parentId)) /\ UNCHANGED <<replaceVars, strategyIdsOmitted, arrayVars, allocationVars, refreshVars, detailVars>>
DeleteStrategy == (\E id \in StrategyIds, policy \in DeletePolicies : handleDeleteStrategy(id, policy)) /\ UNCHANGED <<replaceVars, strategyIdsOmitted, arrayVars, allocationVars, refreshVars, detailVars>>

Next ==
    \/ Navigate
    \/ Reload
    \/ FetchAllStrategies
    \/ EditClick
    \/ CancelClick
    \/ ParentStrategyChange
    \/ ChildStrategyChange
    \/ UpdateSubmit
    \/ StockDelete
    \/ StockSubmit
    \/ CreateStrategy
    \/ UpdateStrategy
    \/ DeleteStrategy

Spec == Init /\ [][Next]_vars

\* the strategy page alone, with no stock in the system
OpenStrategyPage == NavigateTo("/strategies") /\ UNCHANGED <<replaceVars, strategyIdsOmitted, arrayVars, allocationVars, refreshVars, detailVars>>
CreateStrategyInTree == (\E nameInput \in StrategyNameInputs, parentId \in {null} \cup StrategyIds : handleCreateStrategy(nameInput, parentId, MaxStrategies)) /\ UNCHANGED <<replaceVars, strategyIdsOmitted, arrayVars, allocationVars, refreshVars, detailVars>>

NextTree ==
    \/ OpenStrategyPage
    \/ CreateStrategyInTree
    \/ UpdateStrategy
    \/ DeleteStrategy

SpecTree == Init /\ [][NextTree]_vars

\* the pages over a tree of up to MaxStrategies strategies, with one stock
\* whose quantity, price and category the edit form leaves as they are
SubmitFirstStock ==
    /\ handleStockSubmit(<<"7", "2", "0", "3">>, 1, 1, AllNamesFetched)
    /\ UNCHANGED <<replaceVars, strategyIdsOmitted, arrayVars, allocationVars, refreshVars, detailVars>>
SubmitStrategiesOnly ==
    /\ editingStockId \in Ids(stocks)
    /\ \E form \in EditForms(Row(stocks, editingStockId)) :
           /\ form.quantity = Row(stocks, editingStockId).quantity
           /\ form.acquisition_price = Row(stocks, editingStockId).acquisition_price
           /\ form.category = Row(stocks, editingStockId).category
           /\ handleUpdateSubmit(form, AllNamesFetched)
    /\ UNCHANGED <<replaceVars, strategyIdsOmitted, arrayVars, allocationVars, refreshVars, detailVars>>

NextDeep ==
    \/ Navigate
    \/ Reload
    \/ FetchAllStrategies
    \/ EditClick
    \/ CancelClick
    \/ ParentStrategyChange
    \/ ChildStrategyChange
    \/ SubmitStrategiesOnly
    \/ SubmitFirstStock
    \/ CreateStrategyInTree
    \/ UpdateStrategy
    \/ DeleteStrategy

SpecDeep == Init /\ [][NextDeep]_vars

\* the selections of the edit row as arrays, over a tree of two levels
MaxArrayLen == 2
IdArrays == UNION {[1..n -> StrategyIds] : n \in 0..MaxArrayLen}
TwoLevelTrees ==
    {rows \in SUBSET [id : StrategyIds, parent_id : {null} \cup StrategyIds] :
        /\ \A r1, r2 \in rows : r1.id = r2.id => r1 = r2
        /\ \A r \in rows : r.parent_id # null =>
               [id |-> r.parent_id, parent_id |-> null] \in rows}

InitArrays ==
    /\ dbStrategies \in TwoLevelTrees
    /\ allStrategies = dbStrategies
    /\ allStrategiesLoaded = TRUE
    /\ nextStrategyId = MaxStrategies + 1
    /\ dbStocks = {}
    /\ nextStockId = 1
    /\ route = "/"
    /\ stocks = {}
    /\ editingStockId = null
    /\ editingSelectedParentStrategyIds = {}
    /\ editingSelectedChildStrategyIds = {}
    /\ strategies = {}
    /\ lastOp = Op("mount", TRUE, "", null, {}, {}, NoRequests, "")
    /\ strategyIdsOmitted = "clear"
    /\ links = {}
    /\ tx = [w \in Writers |-> NoTx]
    /\ lockHolder = null
    /\ observed = {}
    /\ completeSets = {{}}
    /\ editingArrays = [parents |-> <<>>, children |-> <<>>]
    /\ submittedArray = NotSubmitted
    /\ livePrices = NoPrices
    /\ dbAllocations = <<>>
    /\ allocations = <<>>
    /\ pieChartData = <<>>
    /\ currentAllocation = <<>>
    /\ combinedAllocationData = <<>>
    /\ InitRefresh
    /\ InitDetail

SubmitArrays == handleUpdateSubmitArrays /\ UNCHANGED <<appVars, replaceVars, allocationVars, refreshVars, detailVars>>
SelectArrays ==
    /\ \E parentIds \in IdArrays, childIds \in IdArrays : EditArraysAgain(parentIds, childIds)
    /\ UNCHANGED <<appVars, replaceVars, allocationVars, refreshVars, detailVars>>

NextArrays ==
    \/ SubmitArrays
    \/ SelectArrays

SpecArrays == InitArrays /\ [][NextArrays]_vars

\* the allocation pages over a fetched stock list
MaxHeldStocks == 2
TargetCategories == {"JapanStock", "USStock"}
PercentageInputs == {"", "30", "50"}

HeldStock(id, category, quantity, acquisition_price) ==
    [id |-> id, ticker |-> <<"A", "A", "P", "L">>, name |-> "Known",
     quantity |-> quantity, acquisition_price |-> acquisition_price,
     category |-> category, strategy_ids |-> {}]

\* the stored stocks: ids 1..n, a category, a quantity, an
\* acquisition price that may be 0
HeldStockLists ==
    UNION {{ {HeldStock(id, f[id][1], f[id][2], f[id][3]) : id \in 1..n} :
               f \in [1..n -> {"JapanStock", "USStock"} \X Quantities \X (0..MaxPrice)]} :
           n \in 0..MaxHeldStocks}

\* Stock A: 10 at 1000 without a live price; Stock B: 5 with the live price 300
ScenarioStocks == {HeldStock(1, "JapanStock", 10, 1000), HeldStock(2, "USStock", 5, 1)}
ScenarioPrices == [id \in {2} |-> 300]

\* the answers of GET /stocks/live-prices: a price, which may be 0, for some
\* of the stocks
LivePriceMaps ==
    UNION {[ids -> {0, MaxPrice}] : ids \in SUBSET (1..MaxHeldStocks)} \cup {ScenarioPrices}

InitAllocation ==
    /\ dbStrategies = {}
    /\ allStrategies = {}
    /\ allStrategiesLoaded = FALSE
    /\ nextStrategyId = 1
    /\ dbStocks \in HeldStockLists \cup {ScenarioStocks}
    /\ nextStockId = MaxHeldStocks + 1
    /\ route = "/asset-allocation"
    /\ stocks = get_stocks(dbStocks, dbStrategies)
    /\ editingStockId = null
    /\ editingSelectedParentStrategyIds = {}
    /\ editingSelectedChildStrategyIds = {}
    /\ strategies = {}
    /\ lastOp = Op("mount", TRUE, "", null, {}, {}, NoRequests, "")
    /\ strategyIdsOmitted = "clear"
    /\ links = {}
    /\ tx = [w \in Writers |-> NoTx]
    /\ lockHolder = null
    /\ observed = {}
    /\ completeSets = {{}}
    /\ editingArrays = [parents |-> <<>>, children |-> <<>>]
    /\ submittedArray = NotSubmitted
    /\ livePrices = NoPrices
    /\ dbAllocations = <<>>
    /\ allocations = <<>>
    /\ pieChartData = pieChartDataOf(stocks, NoPrices)
    /\ currentAllocation = currentAllocationOf(stocks, NoPrices)
    /\ combinedAllocationData =
           combinedAllocationDataOf(currentAllocationOf(stocks, NoPrices), <<>>)
    /\ InitRefresh
    /\ InitDetail

allocationRestVars == <<dbStrategies, nextStrategyId, dbStocks, nextStockId, route,
                        stocks, allStrategies, allStrategiesLoaded, editingStockId,
                        editingSelectedParentStrategyIds,
                        editingSelectedChildStrategyIds, strategies,
                        strategyIdsOmitted>>

RefreshPrices ==
    /\ \E prices \in LivePriceMaps : handleRefreshPrices(prices)
    /\ UNCHANGED <<allocationRestVars, replaceVars, arrayVars, refreshVars, detailVars>>
AllocationSubmit ==
    /\ \E category \in TargetCategories \cup {""}, percentage \in PercentageInputs,
          policy \in DuplicateTargetPolicies :
           handleAllocationSubmit(category, percentage, policy)
    /\ UNCHANGED <<allocationRestVars, replaceVars, arrayVars, refreshVars, detailVars>>
AllocationDelete ==
    /\ \E category \in TargetCategories : handleAllocationDelete(category)
    /\ UNCHANGED <<allocationRestVars, replaceVars, arrayVars, refreshVars, detailVars>>

NextAllocation ==
    \/ RefreshPrices
    \/ AllocationSubmit
    \/ AllocationDelete

SpecAllocation == InitAllocation /\ [][NextAllocation]_vars

\* the stock list over stored stocks whose name and category may be missing,
\* with name lookups that answer or fail
StoredStockLists ==
    UNION {{ {[id |-> id, ticker |-> f[id][1], name |-> f[id][2], quantity |-> 1,
               acquisition_price |-> 1, category |-> f[id][3],
               strategy_ids |-> f[id][4]] : id \in 1..n} :
               f \in [1..n -> Tickers \X StockNames \X Categories \X {{}, {1}, {1, 2}}]} :
           n \in 0..MaxStocks}

InitFetch ==
    /\ dbStrategies = {[id |-> 1, parent_id |-> null], [id |-> 2, parent_id |-> 1]}
    /\ allStrategies = {}
    /\ allStrategiesLoaded = FALSE
    /\ nextStrategyId = 3
    /\ dbStocks \in StoredStockLists
    /\ nextStockId = MaxStocks + 1
    /\ route = "/"
    /\ stocks = {}
    /\ editingStockId = null
    /\ editingSelectedParentStrategyIds = {}
    /\ editingSelectedChildStrategyIds = {}
    /\ strategies = {}
    /\ lastOp = Op("start", TRUE, "", null, {}, {}, NoRequests, "")
    /\ strategyIdsOmitted \in OmittedPolicies
    /\ links = {}
    /\ tx = [w \in Writers |-> NoTx]
    /\ lockHolder = null
    /\ observed = {}
    /\ completeSets = {{}}
    /\ editingArrays = [parents |-> <<>>, children |-> <<>>]
    /\ submittedArray = NotSubmitted
    /\ livePrices = NoPrices
    /\ dbAllocations = <<>>
    /\ allocations = <<>>
    /\ pieChartData = <<>>
    /\ currentAllocation = <<>>
    /\ combinedAllocationData = <<>>
    /\ InitRefresh
    /\ InitDetail

MountWithLookups ==
    /\ \E namesFetched \in SUBSET StockIds : AppMount(namesFetched)
    /\ UNCHANGED <<replaceVars, strategyIdsOmitted, arrayVars, allocationVars, refreshVars, detailVars>>
SubmitWithLookups ==
    /\ \E form \in EditFormInputs, namesFetched \in SUBSET StockIds :
           handleUpdateSubmit(form, namesFetched)
    /\ UNCHANGED <<replaceVars, strategyIdsOmitted, arrayVars, allocationVars, refreshVars, detailVars>>

NextFetch ==
    \/ MountWithLookups
    \/ FetchAllStrategies
    \/ EditClick
    \/ CancelClick
    \/ ParentStrategyChange
    \/ ChildStrategyChange
    \/ SubmitWithLookups

SpecFetch == InitFetch /\ [][NextFetch]_vars

\* the replace of one stock's links, with concurrent writers and a reader
Begin == (\E w \in Writers, new_ids \in SUBSET LinkIds : ReplaceBegin(w, new_ids)) /\ UNCHANGED <<appVars, arrayVars, allocationVars, refreshVars, detailVars>>
Clear == (\E w \in Writers : ReplaceClear(w)) /\ UNCHANGED <<appVars, arrayVars, allocationVars, refreshVars, detailVars>>
Insert == (\E w \in Writers, id \in LinkIds : ReplaceInsert(w, id)) /\ UNCHANGED <<appVars, arrayVars, allocationVars, refreshVars, detailVars>>
Commit == (\E w \in Writers : ReplaceCommit(w)) /\ UNCHANGED <<appVars, arrayVars, allocationVars, refreshVars, detailVars>>
Fail == (\E w \in Writers : ReplaceFail(w)) /\ UNCHANGED <<appVars, arrayVars, allocationVars, refreshVars, detailVars>>
Read == ReadStock /\ UNCHANGED <<appVars, arrayVars, allocationVars, refreshVars, detailVars>>

NextReplace ==
    \/ Begin
    \/ Clear
    \/ Insert
    \/ Commit
    \/ Fail
    \/ Read

SpecReplace == Init /\ [][NextReplace]_vars

\* ------------------------------------------------------------- properties
\* the Direct-Ancestor Constraint of a set of strategy ids in a tree: every
\* member that has a parent has that parent in the set
DirectAncestorConstraint(rows, S) ==
    \A r \in rows : (r.id \in S /\ r.parent_id # null) => r.parent_id \in S

StoredIds(stockId) == Row(dbStocks, stockId).strategy_ids

StockMutation == {"handleUpdateSubmit", "handleStockSubmit"}

\* C1: after every successful stock create or stock update the candidate and
\* the stock's stored Association Set satisfy the Direct-Ancestor Constraint,
\* and an update whose candidate violates it does not go through.
C1_SuccessfulMutationKeepsConstraint ==
    /\ (lastOp.op \in StockMutation /\ lastOp.ok) =>
           /\ DirectAncestorConstraint(dbStrategies, lastOp.candidate)
           /\ DirectAncestorConstraint(dbStrategies, StoredIds(lastOp.id))
    /\ (lastOp.op \in StockMutation /\ ~DirectAncestorConstraint(dbStrategies, lastOp.candidate))
           => ~lastOp.ok

\* C1 witness: an update went through with a child strategy and its parent
C1_Witness ==
    /\ lastOp.op = "handleUpdateSubmit"
    /\ lastOp.ok
    /\ \E r \in dbStrategies : r.id \in lastOp.candidate /\ r.parent_id # null
    /\ StoredIds(lastOp.id) = lastOp.candidate

\* C2: in every reachable state every stock's Association Set satisfies the
\* Direct-Ancestor Constraint in the current Strategy Tree.
C2_EveryStockKeepsConstraint ==
    \A s \in dbStocks : DirectAncestorConstraint(dbStrategies, s.strategy_ids)

\* C3: in every reachable state of the Strategy Tree every strategy with a
\* parent_id refers to a strategy whose own parent_id is absent.
C3_DepthAtMostTwo ==
    \A r \in dbStrategies :
        (r.parent_id # null /\ r.parent_id \in Ids(dbStrategies))
            => ParentOf(dbStrategies, r.parent_id) = null

\* a create that reached the backend with a name of its own and a stored parent
CreateUnderStoredParent(op) ==
    /\ op.op = "handleCreateStrategy"
    /\ op.error \notin {"NameRequired", "DuplicateName"}
    /\ op.id # null
    /\ op.id \in Ids(dbStrategies)

\* C4: creating a strategy under a top-level strategy succeeds; creating one
\* under a child strategy fails with InvalidHierarchy and leaves the set of
\* strategies unchanged.
C4_GrandchildCreateRejected ==
    /\ [](CreateUnderStoredParent(lastOp) =>
            IF ParentOf(dbStrategies, lastOp.id) = null
            THEN lastOp.ok
                 /\ \E r \in dbStrategies : r.id = nextStrategyId - 1 /\ r.parent_id = lastOp.id
            ELSE ~lastOp.ok /\ lastOp.error = "InvalidHierarchy")
    /\ [][(lastOp'.op = "handleCreateStrategy" /\ ~lastOp'.ok)
            => (dbStrategies' = dbStrategies /\ nextStrategyId' = nextStrategyId)]_vars

\* C4 witness: a create under a child strategy was rejected
C4_Witness ==
    /\ CreateUnderStoredParent(lastOp)
    /\ ParentOf(dbStrategies, lastOp.id) # null
    /\ ParentOf(dbStrategies, lastOp.id) \in Ids(dbStrategies)
    /\ lastOp.error = "InvalidHierarchy"

\* the scenario's tree: Growth (id 1, top-level), Growth-Tech (id 2, parent 1)
GrowthTree ==
    /\ [id |-> 1, parent_id |-> null] \in dbStrategies
    /\ [id |-> 2, parent_id |-> 1] \in dbStrategies

\* C5: an update whose candidate holds a child strategy without its parent is
\* rejected, whatever the tree and the stock's previous set hold; in the
\* scenario's tree candidate {2} is rejected and candidate {1,2} is accepted.
C5_ChildWithoutParentRejected ==
    lastOp.op = "handleUpdateSubmit" =>
        /\ (\E r \in dbStrategies : r.id \in lastOp.candidate /\ r.parent_id # null
                                    /\ r.parent_id \notin lastOp.candidate)
               => ~lastOp.ok
        /\ (GrowthTree /\ lastOp.candidate = {2}) => ~lastOp.ok
        /\ (GrowthTree /\ lastOp.candidate = {1, 2}) => lastOp.ok

\* C6: every stock update request the client sends supplies the stock's
\* complete desired Association Set, and the stock's set is that set afterwards.
C6_EveryUpdateSuppliesTheSet ==
    /\ \A r \in lastOp.requests :
           /\ r.body.has_strategy_ids
           /\ r.body.strategy_ids = r.desired
    /\ (lastOp.op = "handleUpdateSubmit" /\ lastOp.ok)
           => StoredIds(lastOp.id) = lastOp.candidate

C8_ReplaceIsAtomic ==
    /\ [](observed \in completeSets /\ links \in completeSets)
    /\ [](Cardinality({w \in Writers : tx[w].phase \notin TxIdle}) <= 1)
    /\ [][\A w \in Writers :
            (tx[w].phase \notin TxIdle /\ tx'[w].phase = "failed")
                => (links' = tx[w].prior /\ ReadLinks' = tx[w].prior)]_vars

\* C8 witness: a reader read the prior set while a replace had cleared the
\* links and inserted a part of the new ones
C8_Witness ==
    \E w \in Writers :
        /\ tx[w].phase = "insert"
        /\ tx[w].working # {}
        /\ tx[w].working # tx[w].new_ids
        /\ links # {}
        /\ observed = links
        /\ links # tx[w].working

\* C9 as stated of the validation handleUpdateSubmit runs: it lets the
\* candidate through exactly when no id of the candidate resolves, in the tree
\* the page holds, to a strategy whose parent is outside the candidate.
C9_FrontendValidationDecidesConstraint ==
    (lastOp.op = "handleUpdateSubmit" /\ allStrategiesLoaded) =>
        ((lastOp.error # "FrontendValidation")
            <=> DirectAncestorConstraint(allStrategies, lastOp.candidate))

\* C10: an update with the empty candidate always goes through and leaves the
\* stock with no associations.
C10_EmptyCandidateAccepted ==
    (lastOp.op = "handleUpdateSubmit" /\ lastOp.candidate = {}) =>
        /\ lastOp.ok
        /\ StoredIds(lastOp.id) = {}

\* C10 witness: the empty candidate replaced a non-empty Association Set
C10_Witness ==
    /\ lastOp.op = "handleUpdateSubmit"
    /\ lastOp.candidate = {}
    /\ lastOp.before # {}
    /\ lastOp.ok
    /\ dbStrategies # {}

\* C11: duplicate ids in the selections are treated as a set: the outcome of
\* the validation is that of the duplicate-free selections, the strategy_ids
\* sent hold each selected id exactly once, and the links stored are those of
\* the duplicate-free candidate.
C11_DuplicatesTreatedAsSet ==
    submittedArray.submitted =>
        LET parentIds == editingArrays.parents
            childIds == editingArrays.children
            dupFree == NewSet(parentIds \o childIds)
        IN /\ submittedArray.alerted
                = ~FrontendValidationArray(allStrategies, NewSet(parentIds), NewSet(childIds))
           /\ submittedArray.sent =>
                /\ \A i, j \in DOMAIN submittedArray.strategy_ids :
                       i # j => submittedArray.strategy_ids[i] # submittedArray.strategy_ids[j]
                /\ Elems(submittedArray.strategy_ids) = Elems(parentIds) \cup Elems(childIds)
                /\ Len(submittedArray.strategy_ids)
                       = Cardinality(Elems(parentIds) \cup Elems(childIds))
                /\ submittedArray.accepted
                       = validate_strategy_hierarchy(dbStrategies, Elems(dupFree))
                /\ submittedArray.accepted => submittedArray.stored = Elems(dupFree)

\* C11 witness: a strategy selected as parent and as child, and its parent
\* selected twice, was sent once each and stored
C11_Witness ==
    /\ submittedArray.submitted
    /\ submittedArray.sent
    /\ submittedArray.accepted
    /\ Len(editingArrays.parents \o editingArrays.children)
           > Len(submittedArray.strategy_ids)
    /\ Elems(editingArrays.parents) \cap Elems(editingArrays.children) # {}
    /\ \E r \in dbStrategies : r.id \in submittedArray.stored /\ r.parent_id # null

\* ------------------------------------------------ allocation aggregator
StocksOf(stockSet, category) == {s \in stockSet : s.category = category}
HeldCategories(stockSet) == {s.category : s \in stockSet}

RECURSIVE SumByEntry(_, _)
SumByEntry(stockSet, prices) ==
    IF stockSet = {} THEN 0
    ELSE LET s == CHOOSE x \in stockSet : TRUE
         IN ValueByEntry(s, prices) + SumByEntry(stockSet \ {s}, prices)

\* C12: for every stock the value used by current_composition is
\* live_price * quantity whenever the live-price mapping has an entry for the
\* stock's id, whatever the entry's value, and acquisition_price * quantity
\* only when it has none; the values are summed per the stock's category.
C12_ValueFromLivePriceEntry ==
    /\ Elems(MapKeys(pieChartData)) = HeldCategories(stocks)
    /\ \A i \in DOMAIN pieChartData :
           pieChartData[i].value =
               SumByEntry(StocksOf(stocks, pieChartData[i].name), livePrices)
    /\ \A i \in DOMAIN currentAllocation :
           /\ SumByEntry(stocks, livePrices) # 0
           /\ PctEq(currentAllocation[i].value,
                    Pct(SumByEntry(StocksOf(stocks, currentAllocation[i].name), livePrices),
                        SumByEntry(stocks, livePrices)))

\* a live price is available: the mapping has an entry and it is not 0
Available(stock, prices) == stock.id \in DOMAIN prices /\ prices[stock.id] # 0

RECURSIVE SumOfValues(_, _)
SumOfValues(stockSet, prices) ==
    IF stockSet = {} THEN 0
    ELSE LET s == CHOOSE x \in stockSet : TRUE
         IN (IF Available(s, prices)
             THEN prices[s.id] * s.quantity
             ELSE s.acquisition_price * s.quantity)
            + SumOfValues(stockSet \ {s}, prices)

\* C12 (amended): the value of a stock is live_price * quantity when the
\* mapping has an entry for the stock's id that is not 0, and
\* acquisition_price * quantity when it has no entry or the entry is 0; the
\* values are summed per the stock's category.
C12_ValueFromAvailableLivePrice ==
    /\ Elems(MapKeys(pieChartData)) = HeldCategories(stocks)
    /\ \A i, j \in DOMAIN pieChartData :
           pieChartData[i].name = pieChartData[j].name => i = j
    /\ \A i \in DOMAIN pieChartData :
           pieChartData[i].value =
               SumOfValues(StocksOf(stocks, pieChartData[i].name), livePrices)
    /\ \A i \in DOMAIN currentAllocation :
           /\ SumOfValues(stocks, livePrices) # 0
           /\ PctEq(currentAllocation[i].value,
                    Pct(SumOfValues(StocksOf(stocks, currentAllocation[i].name), livePrices),
                        SumOfValues(stocks, livePrices)))

\* prices were fetched: one stock has the entry 0 and an acquisition value,
\* another stock has a live price
C12_Witness ==
    /\ lastOp.op = "handleRefreshPrices"
    /\ \E s, t \in stocks :
           /\ s.id \in DOMAIN livePrices /\ livePrices[s.id] = 0
           /\ s.acquisition_price * s.quantity # 0
           /\ Available(t, livePrices)
           /\ livePrices[t.id] # t.acquisition_price
           /\ s.category = t.category
    /\ currentAllocation # <<>>

TargetCategoriesOf(allocs) == {allocs[i].category : i \in DOMAIN allocs}

\* C13: combined_view returns exactly one row per category in the union of
\* the categories of current_map and target_list; a category with a target but
\* no holdings has current_percentage 0, a category with holdings but no
\* target, also one whose target was just deleted, has target_percentage 0;
\* otherwise the row carries the current map's value and the stored target.
C13_OneRowPerCategoryOfUnion ==
    LET rows == combinedAllocationData
        held == Elems(MapKeys(currentAllocation))
        targets == TargetCategoriesOf(allocations)
    IN /\ {rows[i].category : i \in DOMAIN rows} = held \cup targets
       /\ \A i, j \in DOMAIN rows : rows[i].category = rows[j].category => i = j
       /\ \A i \in DOMAIN rows :
              LET c == rows[i].category
              IN /\ c \notin held => rows[i].currentPercentage = Zero
                 /\ c \notin targets => rows[i].targetPercentage = 0
                 /\ c \in held =>
                        PctEq(rows[i].currentPercentage, MapGet(currentAllocation, c))
                 /\ c \in targets =>
                        \E k \in DOMAIN allocations :
                            /\ allocations[k].category = c
                            /\ allocations[k].percentage = rows[i].targetPercentage
       /\ lastOp.op = "handleAllocationDelete" =>
              \A c \in held \ targets :
                  \E i \in DOMAIN rows :
                      rows[i].category = c /\ rows[i].targetPercentage = 0

\* a target was just deleted: the category it was for is held and has the
\* target 0, another category has a target and no holdings
C13_Witness ==
    /\ lastOp.op = "handleAllocationDelete"
    /\ \E i, j \in DOMAIN combinedAllocationData :
           /\ combinedAllocationData[i].category \in HeldCategories(stocks)
           /\ combinedAllocationData[i].category \notin TargetCategoriesOf(allocations)
           /\ combinedAllocationData[i].currentPercentage # Zero
           /\ combinedAllocationData[i].targetPercentage = 0
           /\ combinedAllocationData[j].category \notin HeldCategories(stocks)
           /\ combinedAllocationData[j].currentPercentage = Zero
           /\ combinedAllocationData[j].targetPercentage # 0

\* C14: if the total portfolio value is zero, in particular for an empty stock
\* list, current_composition is the empty mapping, and combined_view over it
\* with a non-empty target list yields one row per target category, each with
\* current_percentage 0.
C14_ZeroTotalGivesEmptyComposition ==
    SumOfValues(stocks, livePrices) = 0 =>
        /\ currentAllocation = <<>>
        /\ Len(combinedAllocationData) = Cardinality(TargetCategoriesOf(allocations))
        /\ {combinedAllocationData[i].category : i \in DOMAIN combinedAllocationData}
               = TargetCategoriesOf(allocations)
        /\ \A i \in DOMAIN combinedAllocationData :
               combinedAllocationData[i].currentPercentage = Zero

\* stocks are held, their total value is 0, and two targets are set
C14_Witness ==
    /\ stocks # {}
    /\ SumOfValues(stocks, livePrices) = 0
    /\ lastOp.op = "handleAllocationSubmit" /\ lastOp.ok
    /\ Len(allocations) = 2
    /\ Len(combinedAllocationData) = 2

\* the sum of the percentages of a Map, as a fraction
RECURSIVE SumOfPercentages(_)
SumOfPercentages(map) ==
    IF map = <<>> THEN Zero
    ELSE LET rest == SumOfPercentages(SubSeq(map, 1, Len(map) - 1))
             last == map[Len(map)].value
         IN [num |-> rest.num * last.den + last.num * rest.den,
             den |-> rest.den * last.den]

\* C15: when the total portfolio value is not zero, current_composition has
\* one entry per category that has at least one stock, each equal to
\* category_total / portfolio_total * 100, and the percentages sum to 100; in
\* the scenario of Stock A and Stock B they are 86.96 and 13.04.
C15_PercentagesOfTotal ==
    /\ SumOfValues(stocks, livePrices) # 0 =>
           /\ Elems(MapKeys(currentAllocation)) = HeldCategories(stocks)
           /\ Len(currentAllocation) = Cardinality(HeldCategories(stocks))
           /\ \A i \in DOMAIN currentAllocation :
                  LET p == currentAllocation[i].value
                      categoryTotal ==
                          SumOfValues(StocksOf(stocks, currentAllocation[i].name), livePrices)
                  IN p.num * SumOfValues(stocks, livePrices) = categoryTotal * 100 * p.den
           /\ SumOfPercentages(currentAllocation).num
                  = 100 * SumOfPercentages(currentAllocation).den
    /\ (stocks = get_stocks(ScenarioStocks, {}) /\ livePrices = ScenarioPrices) =>
           /\ toFixed2(MapGet(currentAllocation, "JapanStock")) = 8696
           /\ toFixed2(MapGet(currentAllocation, "USStock")) = 1304

\* the scenario: Stock A without a live price, Stock B with the live price 300
C15_Witness ==
    /\ lastOp.op = "handleRefreshPrices"
    /\ stocks = get_stocks(ScenarioStocks, {})
    /\ livePrices = ScenarioPrices
    /\ Len(currentAllocation) = 2

\* C16: the rows of combined_view are ordered by current_percentage
\* descending: of two consecutive rows the earlier one's current_percentage is
\* greater than or equal to the later one's.
C16_RowsOrderedByCurrentDescending ==
    \A i \in DOMAIN combinedAllocationData :
        i + 1 \in DOMAIN combinedAllocationData =>
            ~PctLess(combinedAllocationData[i].currentPercentage,
                     combinedAllocationData[i + 1].currentPercentage)

\* the category seen second holds the larger share and is the first row
C16_Witness ==
    /\ Len(currentAllocation) = 2
    /\ Len(combinedAllocationData) = 2
    /\ combinedAllocationData[1].category = currentAllocation[2].name
    /\ PctLess(combinedAllocationData[2].currentPercentage,
               combinedAllocationData[1].currentPercentage)
    /\ lastOp.op = "handleRefreshPrices"

\* ------------------------------------------------------- strategy tree
\* the strategies reached from id by following parent_id, at most n times
RECURSIVE AncestorsWithin(_, _, _)
AncestorsWithin(rows, id, n) ==
    IF n = 0 \/ id \notin Ids(rows) \/ ParentOf(rows, id) = null THEN {}
    ELSE {ParentOf(rows, id)} \cup AncestorsWithin(rows, ParentOf(rows, id), n - 1)

NoCycle(rows) == \A r \in rows : r.id \notin AncestorsWithin(rows, r.id, Cardinality(rows))

\* C17: strategy update rejects setting a strategy's parent_id to the
\* strategy's own id or to the id of one of its own children and leaves the
\* Strategy Tree unchanged; the parent relation never contains a cycle.
C17_UpdateNeverMakesACycle ==
    [][/\ \A id \in Ids(dbStrategies) :
              \A parent_id \in {id} \cup ChildrenOf(dbStrategies, id) :
                  /\ ~update_strategy(dbStrategies, id, "fresh", parent_id).ok
                  /\ update_strategy(dbStrategies, id, "fresh", parent_id).rows = dbStrategies
       /\ (lastOp'.op = "handleUpdateStrategy" /\ ~lastOp'.ok) =>
              dbStrategies' = dbStrategies /\ strategies' = strategies
       /\ NoCycle(dbStrategies')]_vars

\* two strategies, one under the other; the page asked to put the upper one
\* under a strategy, which can only be its child, and was refused
C17_Witness ==
    /\ lastOp.op = "handleUpdateStrategy"
    /\ lastOp.error = "InvalidHierarchy"
    /\ Cardinality(dbStrategies) = 2
    /\ ChildrenOf(dbStrategies, lastOp.id) # {}
    /\ ParentOf(dbStrategies, lastOp.id) = null

\* C18: after a strategy delete, either the delete was rejected with InUse
\* because a stock's Association Set references the id, or the id is in no
\* stock's Association Set; in every reachable state no Association Set
\* references a strategy id that does not exist.
C18_NoLinkToMissingStrategy ==
    /\ \A s \in dbStocks : s.strategy_ids \subseteq Ids(dbStrategies)
    /\ lastOp.op = "handleDeleteStrategy" =>
           \/ /\ ~lastOp.ok
              /\ lastOp.error = "InUse"
              /\ lastOp.id \in Ids(dbStrategies)
              /\ \E s \in dbStocks : lastOp.id \in s.strategy_ids
           \/ /\ lastOp.ok => lastOp.id \notin Ids(dbStrategies)
              /\ \A s \in dbStocks : lastOp.id \notin s.strategy_ids

\* a strategy was deleted that a stock was linked with: the list the browser
\* still holds shows the link, the stored stock has lost it
C18_Witness ==
    /\ lastOp.op = "handleDeleteStrategy"
    /\ lastOp.ok
    /\ \E s \in stocks : lastOp.id \in Ids(s.strategies)
    /\ dbStocks # {}
    /\ \A s \in dbStocks : lastOp.id \notin s.strategy_ids

\* ------------------------------------------------------------- alerts
\* the handlers of the mutations: strategy create, update, delete, stock
\* update, stock create
Mutations == {"handleCreateStrategy", "handleUpdateStrategy", "handleDeleteStrategy",
              "handleUpdateSubmit", "handleStockSubmit"}

\* the alerts that say only that the operation failed
GenericAlerts == {"StrategyUpdateFailed", "StrategyDeleteFailed", "StockUpdateFailed",
                  "StockAddFailed", ""}

\* C19: every rejected mutation (strategy create, strategy update, strategy
\* delete, stock update, stock create) shows the user the rule that was
\* violated, not a generic failure message.
C19_RejectionSurfacesTheRule ==
    (lastOp.op \in Mutations /\ ~lastOp.ok) => lastOp.alert \notin GenericAlerts

\* C20: list_all returns every stored strategy, top-level and child alike, and
\* renderStrategies reconstructs the full tree from it: every stored strategy
\* is rendered exactly once, each child directly under its parent.
C20_EveryStrategyRenderedOnce ==
    route = "/strategies" =>
        /\ strategies = dbStrategies
        /\ LET rows == renderRows(strategies, null, 0)
           IN \A s \in dbStrategies :
                  /\ Cardinality({i \in DOMAIN rows : rows[i].id = s.id}) = 1
                  /\ \A i \in DOMAIN rows :
                         (rows[i].id = s.id /\ s.parent_id # null) =>
                             \E j \in 1..(i - 1) :
                                 /\ rows[j].id = s.parent_id
                                 /\ rows[j].indent + 1 = rows[i].indent
                                 /\ \A k \in (j + 1)..(i - 1) :
                                        rows[k].indent > rows[j].indent

\* ------------------------------------------------- replace, repeated
\* replace(stock_id, X) as the page performs it: the axios.put of
\* handleUpdateSubmit and the fetchStocks that follows it
replace(stockRows, rows, stock_id, body, namesFetched) ==
    LET res == update_stock(stockRows, rows, stock_id, body)
    IN IF res.ok THEN fetchStocks(res.stocks, rows, namesFetched).dbStocks ELSE stockRows

\* the body that asks for the Association Set X and leaves the fields of the
\* stock as they are
ReplaceBody(stock, X) ==
    [ticker |-> stock.ticker, name |-> stock.name, quantity |-> stock.quantity,
     acquisition_price |-> stock.acquisition_price, category |-> stock.category,
     has_strategy_ids |-> TRUE, strategy_ids |-> X]

\* C21: replace(stock_id, X) twice in a row with the same X yields the same
\* final Association Set as once, for every prior Association Set and every X.
C21_ReplaceTwiceIsReplaceOnce ==
    \A stock \in dbStocks :
        \A X \in SUBSET Ids(dbStrategies) :
            \A first \in SUBSET Ids(dbStocks), second \in SUBSET Ids(dbStocks) :
                LET body == ReplaceBody(stock, X)
                    once == replace(dbStocks, dbStrategies, stock.id, body, first)
                    twice == replace(once, dbStrategies, stock.id, body, second)
                IN Row(twice, stock.id).strategy_ids = Row(once, stock.id).strategy_ids

\* ------------------------------------------------- the two dropdowns of an edit
\* the strategies of the page's list that are direct children of a selection
DirectChildrenOf(all, parentIds) ==
    {s.id : s \in {t \in all : \E p \in parentIds : t.parent_id = p}}

\* C23: during an edit session the child-strategy dropdown offers exactly the
\* direct children of the currently selected parent strategies, and after
\* every change of the parent selection each still-selected child id has its
\* parent_id in the new parent selection.
C23_ChildrenFollowTheParentSelection ==
    (route = "/" /\ editingStockId # null) =>
        /\ ChildOptions(allStrategies, editingSelectedParentStrategyIds)
               = DirectChildrenOf(allStrategies, editingSelectedParentStrategyIds)
        /\ (lastOp.op = "handleEditingParentStrategyChange") =>
               editingSelectedChildStrategyIds
                   \subseteq DirectChildrenOf(allStrategies,
                                              editingSelectedParentStrategyIds)

\* a parent change that kept a selected child while another parent strategy of
\* the list stayed unselected
C23_Witness ==
    /\ route = "/"
    /\ editingStockId # null
    /\ lastOp.op = "handleEditingParentStrategyChange"
    /\ editingSelectedChildStrategyIds # {}
    /\ editingSelectedParentStrategyIds # ParentOptions(allStrategies)

\* ------------------------------------------------- fetchStocks, the corrections
\* C26: after fetchStocks completes, every stock of the local state whose
\* fetched category was empty or Uncategorized has the category JapanStock if
\* its ticker is made of digits only and USStock otherwise; a stock whose
\* fetched name is known and whose category is any other value is left as
\* fetched and no update request is sent for it.
C26_FetchCorrectsTheCategoryOnly ==
    [][(lastOp'.op = "mount") =>
          \A s \in get_stocks(dbStocks, dbStrategies) :
              /\ s.id \in Ids(stocks')
              /\ NeedsCategory(s) =>
                     Row(stocks', s.id).category
                         = (IF \A i \in 1..Len(s.ticker) : s.ticker[i] \in Digits
                            THEN "JapanStock" ELSE "USStock")
              /\ (~NeedsName(s) /\ ~NeedsCategory(s)) =>
                     /\ Row(stocks', s.id) = s
                     /\ \A q \in lastOp'.requests : q.stock_id # s.id]_vars

\* a mount whose fetchStocks sent a stock back with a corrected category
C26_Witness ==
    /\ lastOp.op = "mount"
    /\ \E q \in lastOp.requests :
           /\ q.sender = "fetchStocks"
           /\ q.body.category \in {"JapanStock", "USStock"}
           /\ Row(stocks, q.stock_id).category = q.body.category
           /\ Row(stocks, q.stock_id).name = "UnknownName"

\* ------------------------------------------------- App, the live-price refresh
MaxRefreshes == 3
MaxDetailFetches == 3

\* the paths of App's <Route> elements
DetailRoute == "/stocks/:stockId"
AppRoutes ==
    Routes \cup {"/asset-composition", "/asset-allocation", "/stock-list", DetailRoute}

RouteElement(r) ==
    CASE r = "/add-stock" -> "StockFormPage"
      [] r = "/asset-composition" -> "AssetCompositionPage"
      [] r = "/asset-allocation" -> "AssetAllocationPage"
      [] r = "/strategies" -> "StrategyPage"
      [] r = DetailRoute -> "StockDetailPage"
      [] OTHER -> "StockListPage"

\* an App whose heading belongs to the page of "/"
AppWithHeadingOnHome(r) ==
    [h1 |-> IF r = "/" THEN "PortfolioManagement" ELSE "", navBar |-> TRUE,
     page |-> RouteElement(r)]

\* App's JSX: the heading and the NavBar stand before <Routes>, whatever the
\* state of App is
App(r) == [h1 |-> "PortfolioManagement", navBar |-> TRUE, page |-> RouteElement(r)]

\* the answer of GET /stocks/live-prices to the n-th call
LivePricesAt(n) == [id \in StockIds |-> n]

\* App's mount effect: fetchStocks(), fetchAllocations(), handleRefreshPrices()
\* are called and the interval is set
mountEffect ==
    /\ fetchStatus.stocks = "idle"
    /\ fetchStatus' = [stocks |-> "pending", allocations |-> "pending"]
    /\ isLoadingPrices' = TRUE
    /\ refreshesStarted' = refreshesStarted + 1
    /\ refreshesInFlight' = refreshesInFlight \cup {refreshesStarted + 1}
    /\ UNCHANGED <<refreshesSucceeded, appVars, replaceVars, arrayVars,
                   allocationVars, detailVars>>

\* fetchStocks of the mount effect settles
fetchStocksSettles(ok) ==
    LET fetch == fetchStocks(dbStocks, dbStrategies, AllNamesFetched)
    IN /\ fetchStatus.stocks = "pending"
       /\ fetchStatus' = [fetchStatus EXCEPT !.stocks = IF ok THEN "ok" ELSE "failed"]
       /\ dbStocks' = IF ok THEN fetch.dbStocks ELSE dbStocks
       /\ stocks' = IF ok THEN fetch.stocks ELSE stocks
       /\ Render(stocks', livePrices, allocations)
       /\ UNCHANGED <<dbStrategies, nextStrategyId, nextStockId, route,
                      stockListPageVars, strategies, lastOp, strategyIdsOmitted,
                      livePrices, dbAllocations, allocations,
                      isLoadingPrices, refreshesInFlight, refreshesStarted,
                      refreshesSucceeded, replaceVars, arrayVars, detailVars>>

\* fetchAllocations of the mount effect settles
fetchAllocationsSettles(ok) ==
    /\ fetchStatus.allocations = "pending"
    /\ fetchStatus' = [fetchStatus EXCEPT !.allocations = IF ok THEN "ok" ELSE "failed"]
    /\ allocations' = IF ok THEN dbAllocations ELSE allocations
    /\ Render(stocks, livePrices, allocations')
    /\ UNCHANGED <<appVars, livePrices, dbAllocations,
                   isLoadingPrices, refreshesInFlight, refreshesStarted,
                   refreshesSucceeded, replaceVars, arrayVars, detailVars>>

\* handleRefreshPrices up to its await: setIsLoadingPrices(true) and the GET
handleRefreshPricesCalled ==
    /\ fetchStatus.stocks # "idle"
    /\ refreshesStarted < MaxRefreshes
    /\ isLoadingPrices' = TRUE
    /\ refreshesStarted' = refreshesStarted + 1
    /\ refreshesInFlight' = refreshesInFlight \cup {refreshesStarted + 1}
    /\ UNCHANGED <<refreshesSucceeded, fetchStatus, appVars, replaceVars, arrayVars,
                   allocationVars, detailVars>>

\* setInterval(handleRefreshPrices, REFRESH_INTERVAL) fires
IntervalFires == handleRefreshPricesCalled

\* the refresh button of StockListPage, disabled while isLoadingPrices
RefreshClick ==
    /\ RouteElement(route) = "StockListPage"
    /\ ~isLoadingPrices
    /\ handleRefreshPricesCalled

\* handleRefreshPrices after its await, the GET answered:
\* setLivePrices(response.data), setIsLoadingPrices(false)
handleRefreshPricesAnswered(n) ==
    /\ n \in refreshesInFlight
    /\ refreshesInFlight' = refreshesInFlight \ {n}
    /\ refreshesSucceeded' = refreshesSucceeded \cup {n}
    /\ livePrices' = LivePricesAt(n)
    /\ Render(stocks, livePrices', allocations)
    /\ isLoadingPrices' = FALSE
    /\ UNCHANGED <<refreshesStarted, fetchStatus, dbAllocations, allocations,
                   appVars, replaceVars, arrayVars, detailVars>>

\* handleRefreshPrices after its await, the GET failed: console.error,
\* setIsLoadingPrices(false)
handleRefreshPricesFailed(n) ==
    /\ n \in refreshesInFlight
    /\ refreshesInFlight' = refreshesInFlight \ {n}
    /\ isLoadingPrices' = FALSE
    /\ UNCHANGED <<refreshesStarted, refreshesSucceeded, fetchStatus, appVars,
                   replaceVars, arrayVars, allocationVars, detailVars>>

\* ------------------------------------------------- StockDetailPage
newsPerPage == 10
NewsLengths == {0, 1, newsPerPage + 1, 2 * newsPerPage + 1}

\* Math.ceil(news.length / newsPerPage)
CeilDiv(a, b) == (a + b - 1) \div b
Min(a, b) == IF a < b THEN a ELSE b
Max(a, b) == IF a > b THEN a ELSE b

\* the effect on [ticker]: fetchStockDetails up to its await, setLoading(true),
\* setError(null) and the four GETs of Promise.all
fetchStockDetailsCalled(page, T) ==
    /\ detailFetchesStarted < MaxDetailFetches
    /\ detailFetchesStarted' = detailFetchesStarted + 1
    /\ stockDetailPage' = [page EXCEPT !.ticker = T, !.loading = TRUE, !.error = NoTicker]

\* a <Link> of the stock list is followed: StockDetailPage is mounted with the
\* ticker of the route
OpenStockDetail(T) ==
    /\ NavigateTo(DetailRoute)
    /\ fetchStockDetailsCalled(Unmounted, T)
    /\ detailFetches' = {[n |-> detailFetchesStarted + 1, ticker |-> T]}
    /\ UNCHANGED <<rendering, refreshVars, strategyIdsOmitted, replaceVars, arrayVars,
                   allocationVars>>

\* a link of the NavBar is followed: the page shown is unmounted, and what the
\* calls of an unmounted StockDetailPage answer is dropped
FollowLink(r) ==
    /\ r # DetailRoute
    /\ NavigateTo(r)
    /\ stockDetailPage' = Unmounted
    /\ detailFetches' = {}
    /\ UNCHANGED <<detailFetchesStarted, rendering, refreshVars, strategyIdsOmitted,
                   replaceVars, arrayVars, allocationVars>>

\* the ticker of the route changes while StockDetailPage stays mounted (a step
\* through the history from one stock's page to another's)
TickerChanges(T) ==
    /\ route = DetailRoute
    /\ T # stockDetailPage.ticker
    /\ fetchStockDetailsCalled(stockDetailPage, T)
    /\ detailFetches' = detailFetches \cup {[n |-> detailFetchesStarted + 1, ticker |-> T]}
    /\ UNCHANGED <<rendering, appVars, refreshVars, replaceVars, arrayVars, allocationVars>>

\* fetchStockDetails after its await, the four GETs answered: setQuoteData,
\* setProfile, setMetrics, setNews, and setLoading(false) of the finally
fetchStockDetailsAnswered(f, length) ==
    /\ f \in detailFetches
    /\ detailFetches' = detailFetches \ {f}
    /\ stockDetailPage' =
           [stockDetailPage EXCEPT !.quoteData = f.ticker, !.profile = f.ticker,
                                   !.metrics = f.ticker,
                                   !.news = [ticker |-> f.ticker, length |-> length],
                                   !.loading = FALSE]
    /\ UNCHANGED <<detailFetchesStarted, rendering, appVars, refreshVars, replaceVars,
                   arrayVars, allocationVars>>

\* fetchStockDetails after its await, one GET failed: setError, and
\* setLoading(false) of the finally
fetchStockDetailsFailed(f) ==
    /\ f \in detailFetches
    /\ detailFetches' = detailFetches \ {f}
    /\ stockDetailPage' = [stockDetailPage EXCEPT !.error = f.ticker, !.loading = FALSE]
    /\ UNCHANGED <<detailFetchesStarted, rendering, appVars, refreshVars, replaceVars,
                   arrayVars, allocationVars>>

\* the news list and its two buttons are rendered
NewsShown(page) ==
    /\ page.ticker # NoTicker
    /\ ~page.loading
    /\ page.error = NoTicker
    /\ page.profile # NoTicker
    /\ page.news.length > 0

\* setNewsCurrentPage of the two buttons
PreviousNewsPage(prev) == Max(prev - 1, 1)
NextNewsPage(prev, length) == Min(prev + 1, CeilDiv(length, newsPerPage))

PreviousClick ==
    /\ NewsShown(stockDetailPage)
    /\ stockDetailPage.newsCurrentPage # 1
    /\ stockDetailPage' =
           [stockDetailPage EXCEPT !.newsCurrentPage = PreviousNewsPage(@)]
    /\ UNCHANGED <<detailFetches, detailFetchesStarted, rendering, appVars, refreshVars,
                   replaceVars, arrayVars, allocationVars>>

NextClick ==
    /\ NewsShown(stockDetailPage)
    /\ stockDetailPage.newsCurrentPage
           # CeilDiv(stockDetailPage.news.length, newsPerPage)
    /\ stockDetailPage' =
           [stockDetailPage EXCEPT
               !.newsCurrentPage = NextNewsPage(@, stockDetailPage.news.length)]
    /\ UNCHANGED <<detailFetches, detailFetchesStarted, rendering, appVars, refreshVars,
                   replaceVars, arrayVars, allocationVars>>

\* the slice of the news shown:
\* news.slice((newsCurrentPage - 1) * newsPerPage, newsCurrentPage * newsPerPage)
NewsSlice(page) ==
    {i \in 1..page.news.length :
        /\ i > (page.newsCurrentPage - 1) * newsPerPage
        /\ i <= page.newsCurrentPage * newsPerPage}

\* App with its refreshes, on every route
NextRefresh ==
    \/ mountEffect
    \/ \E ok \in BOOLEAN : fetchStocksSettles(ok)
    \/ \E ok \in BOOLEAN : fetchAllocationsSettles(ok)
    \/ IntervalFires
    \/ RefreshClick
    \/ \E n \in 1..MaxRefreshes : handleRefreshPricesAnswered(n)
    \/ \E n \in 1..MaxRefreshes : handleRefreshPricesFailed(n)
    \/ \E r \in AppRoutes : FollowLink(r)
    \/ \E T \in Tickers : OpenStockDetail(T)

SpecRefresh == Init /\ [][NextRefresh]_vars

\* StockDetailPage, entered from the list and moved from ticker to ticker
NextDetail ==
    \/ \E T \in Tickers : OpenStockDetail(T)
    \/ \E r \in AppRoutes : FollowLink(r)
    \/ \E T \in Tickers : TickerChanges(T)
    \/ \E f \in detailFetches, length \in NewsLengths : fetchStockDetailsAnswered(f, length)
    \/ \E f \in detailFetches : fetchStockDetailsFailed(f)
    \/ PreviousClick
    \/ NextClick

SpecDetail == Init /\ [][NextDetail]_vars

\* ------------------------------------------------- the heading
\* C22: on the route "/" the app shows the heading PortfolioManagement, and the
\* heading is rendered in every state of the application, whatever the route
\* is and whether the fetches of the stocks, of the allocations and of the
\* live prices have succeeded, have failed or are still pending.
C22_HeadingInEveryState ==
    /\ App(route).h1 = "PortfolioManagement"
    /\ (route = "/") => App(route).page = "StockListPage"

\* another page than the list, with the stocks' fetch failed, the allocations'
\* fetch pending and a refresh in flight after another one failed
C22_Witness ==
    /\ route = DetailRoute
    /\ fetchStatus = [stocks |-> "failed", allocations |-> "pending"]
    /\ refreshesInFlight # {}
    /\ refreshesStarted > Cardinality(refreshesInFlight)
    /\ refreshesSucceeded = {}
    /\ App(route).h1 = "PortfolioManagement"

\* ------------------------------------------------- overlapping refreshes
\* C24: isLoadingPrices is true whenever at least one live-price refresh is in
\* flight, for every interleaving of the automatic refreshes of the interval
\* and the manual ones, and it is false once every refresh in flight has
\* completed, with success or with failure.
C24_LoadingWhileARefreshIsInFlight ==
    /\ (refreshesInFlight # {}) => isLoadingPrices
    /\ (refreshesInFlight = {}) => ~isLoadingPrices

\* C25: when refreshes overlap, once all of them have completed livePrices
\* holds the response of the most recently started refresh that succeeded (an
\* older response that arrives late never overwrites a newer one), and a
\* refresh that fails leaves livePrices unchanged.
C25_NewestAnswerWins ==
    [][/\ (refreshesInFlight' = {} /\ refreshesSucceeded' # {}) =>
              livePrices' = LivePricesAt(CHOOSE n \in refreshesSucceeded' :
                                            \A o \in refreshesSucceeded' : o <= n)
       /\ (refreshesInFlight' # refreshesInFlight
             /\ refreshesInFlight' \subseteq refreshesInFlight
             /\ refreshesSucceeded' = refreshesSucceeded) =>
              livePrices' = livePrices]_vars

\* ------------------------------------------------- the stock detail page
\* C27: on the stock detail page, in every reachable state, also after the
\* ticker of the route has changed and another news list was loaded,
\* newsCurrentPage is within 1..max(1, ceil(news.length / newsPerPage)), so
\* that the slice shown is not empty whenever news is not empty.
C27_NewsPageWithinTheList ==
    (stockDetailPage.ticker # NoTicker) =>
        /\ stockDetailPage.newsCurrentPage >= 1
        /\ stockDetailPage.newsCurrentPage
               <= Max(1, CeilDiv(stockDetailPage.news.length, newsPerPage))
        /\ (stockDetailPage.news.length > 0) => NewsSlice(stockDetailPage) # {}

\* C28: when the ticker changes from T1 to T2 while the fetch of T1 is in
\* flight, after both fetches have completed, in any order, what the page
\* displays (the error, or else the quote, the profile, the metrics and the
\* news) belongs to T2 and loading is false.
C28_DetailsOfTheRoutesTicker ==
    (stockDetailPage.ticker # NoTicker /\ detailFetches = {}) =>
        /\ ~stockDetailPage.loading
        /\ IF stockDetailPage.error # NoTicker
           THEN stockDetailPage.error = stockDetailPage.ticker
           ELSE /\ stockDetailPage.quoteData = stockDetailPage.ticker
                /\ stockDetailPage.profile = stockDetailPage.ticker
                /\ stockDetailPage.metrics = stockDetailPage.ticker
                /\ stockDetailPage.news.ticker = stockDetailPage.ticker

\* ------------------------------------------------- App.tsx, the memos
\* a forEach that values every stock at its acquisition price
forEachAtAcquisitionPrice(stockSeq, prices) ==
    [categoryTotals |-> categoryTotals(stockSeq, NoPrices),
     totalPortfolioValue |-> totalPortfolioValue(stockSeq, NoPrices)]

\* App.tsx, stocks.forEach of the memos: livePrices[stock.id], the value of
\* the stock, totalPortfolioValue += value and categoryTotals.set in one pass
RECURSIVE forEachStock(_, _)
forEachStock(stockSeq, prices) ==
    IF stockSeq = <<>> THEN [categoryTotals |-> <<>>, totalPortfolioValue |-> 0]
    ELSE LET acc == forEachStock(SubSeq(stockSeq, 1, Len(stockSeq) - 1), prices)
             stock == stockSeq[Len(stockSeq)]
             livePrice == IF stock.id \in DOMAIN prices THEN prices[stock.id] ELSE 0
             value == IF livePrice # 0 THEN livePrice * stock.quantity
                      ELSE stock.quantity * stock.acquisition_price
             got == IF MapHas(acc.categoryTotals, stock.category)
                    THEN MapGet(acc.categoryTotals, stock.category) ELSE 0
         IN [categoryTotals |-> MapSet(acc.categoryTotals, stock.category, got + value),
             totalPortfolioValue |-> acc.totalPortfolioValue + value]

\* App.tsx, pieChartData
AppPieChartData(stockSet, prices) ==
    forEachStock(StocksInOrder(stockSet), prices).categoryTotals

\* App.tsx, currentAllocation
AppCurrentAllocation(stockSet, prices) ==
    LET acc == forEachStock(StocksInOrder(stockSet), prices)
    IN IF acc.totalPortfolioValue = 0 THEN <<>>
       ELSE [i \in DOMAIN acc.categoryTotals |->
                [name |-> acc.categoryTotals[i].name,
                 value |-> Pct(acc.categoryTotals[i].value, acc.totalPortfolioValue)]]

\* App.tsx, combinedAllocationData
AppCombinedAllocationData(current, allocs) ==
    LET keys == [i \in DOMAIN current |-> current[i].name]
        targets == [i \in DOMAIN allocs |-> allocs[i].category]
        allCategories == NewSet(keys \o targets)
        found(category) == {i \in DOMAIN allocs : allocs[i].category = category}
        first(category) == CHOOSE i \in found(category) : \A j \in found(category) : i <= j
        got(category) == {i \in DOMAIN current : current[i].name = category}
        row(category) ==
            [category |-> category,
             currentPercentage |->
                 IF got(category) = {} THEN Zero
                 ELSE LET v == current[CHOOSE i \in got(category) : TRUE].value
                      IN IF v.num = 0 THEN Zero ELSE v,
             targetPercentage |->
                 IF found(category) = {} THEN 0 ELSE allocs[first(category)].percentage]
    IN SortByCurrentDesc([i \in DOMAIN allCategories |-> row(allCategories[i])])

\* C29: for every stock list, live-price mapping and target list, the
\* current-composition and the combined-comparison values computed in App.tsx
\* equal those computed in AssetAllocationPage.tsx, and pieChartData of
\* App.tsx equals that of AssetCompositionPage.
C29_AppMemosEqualThePages ==
    /\ AppPieChartData(stocks, livePrices) = pieChartDataOf(stocks, livePrices)
    /\ AppPieChartData(stocks, livePrices) = pieChartData
    /\ AppCurrentAllocation(stocks, livePrices) = currentAllocationOf(stocks, livePrices)
    /\ AppCurrentAllocation(stocks, livePrices) = currentAllocation
    /\ AppCombinedAllocationData(AppCurrentAllocation(stocks, livePrices), allocations)
           = combinedAllocationDataOf(currentAllocationOf(stocks, livePrices), allocations)
    /\ AppCombinedAllocationData(AppCurrentAllocation(stocks, livePrices), allocations)
           = combinedAllocationData

\* two stocks, one valued at its live price and one at its acquisition price,
\* and a target for a category that is not held
C29_Witness ==
    /\ Cardinality(stocks) = 2
    /\ \E s \in stocks : s.id \in DOMAIN livePrices /\ livePrices[s.id] # 0
    /\ \E s \in stocks : s.id \notin DOMAIN livePrices \/ livePrices[s.id] = 0
    /\ Len(AppCombinedAllocationData(AppCurrentAllocation(stocks, livePrices), allocations)) > 1
    /\ \E i \in DOMAIN allocations :
           /\ allocations[i].percentage # 0
           /\ \A s \in stocks : s.category # allocations[i].category

\* ------------------------------------------------- renderStrategies, call by call
\* strategy lists of every shape: parent_id null, the id of a strategy of the
\* list (the strategy itself, or one of a cycle) or an id that is not in the list
AnyStrategyLists ==
    UNION {{ {[id |-> id, parent_id |-> f[id]] : id \in 1..n}
               : f \in [1..n -> {null} \cup (1..(MaxStrategies + 1))] }
           : n \in 0..MaxStrategies}

InitRender ==
    /\ dbStrategies \in AnyStrategyLists
    /\ nextStrategyId = MaxStrategies + 2
    /\ dbStocks = {}
    /\ nextStockId = 1
    /\ route = "/strategies"
    /\ stocks = {}
    /\ allStrategies = {}
    /\ allStrategiesLoaded = FALSE
    /\ editingStockId = null
    /\ editingSelectedParentStrategyIds = {}
    /\ editingSelectedChildStrategyIds = {}
    /\ strategies = dbStrategies
    /\ lastOp = Op("mount", TRUE, "", null, {}, {}, NoRequests, "")
    /\ strategyIdsOmitted = "keep"
    /\ links = {}
    /\ tx = [w \in Writers |-> NoTx]
    /\ lockHolder = null
    /\ observed = {}
    /\ completeSets = {{}}
    /\ editingArrays = [parents |-> <<>>, children |-> <<>>]
    /\ submittedArray = NotSubmitted
    /\ livePrices = NoPrices
    /\ dbAllocations = <<>>
    /\ allocations = <<>>
    /\ pieChartData = <<>>
    /\ currentAllocation = <<>>
    /\ combinedAllocationData = <<>>
    /\ InitRefresh
    /\ InitDetail

\* a filter that takes a strategy whose parent is not in the list for a
\* top-level one
childrenOrOrphans(strategyList, parentId) ==
    {s \in strategyList :
        \/ s.parent_id = parentId
        \/ parentId = null /\ s.parent_id \notin Ids(strategyList)}

\* const children = strategyList.filter(s => s.parent_id === parentId)
children(strategyList, parentId) == {s \in strategyList : s.parent_id = parentId}

\* a call renderStrategies(strategyList, parentId, indent) that has filtered
\* its children and has mapped none of them yet
Call(strategyList, parentId, indent) ==
    [parentId |-> parentId, indent |-> indent,
     children |-> StrategiesInOrder(children(strategyList, parentId))]

\* the table body: renderStrategies(strategies, null, 0) is called
renderStrategiesCalled ==
    /\ route = "/strategies"
    /\ rendering.phase = "idle"
    /\ rendering' = [phase |-> "running", calls |-> <<Call(strategies, null, 0)>>,
                     rows |-> <<>>]
    /\ UNCHANGED <<stockDetailPage, detailFetches, detailFetchesStarted, appVars,
                   refreshVars, replaceVars, arrayVars, allocationVars>>

\* children.map, the next strategy: its <tr>, then the call
\* renderStrategies(strategyList, strategy.id, indent + 1)
renderStrategiesMaps ==
    /\ rendering.phase = "running"
    /\ LET top == rendering.calls[Len(rendering.calls)]
           below == SubSeq(rendering.calls, 1, Len(rendering.calls) - 1)
       IN /\ top.children # <<>>
          /\ rendering' =
                 [rendering EXCEPT
                     !.rows = Append(@, [id |-> Head(top.children).id,
                                         under |-> top.parentId,
                                         indent |-> top.indent]),
                     !.calls = below \o <<[top EXCEPT !.children = Tail(@)]>>
                                     \o <<Call(strategies, Head(top.children).id,
                                               top.indent + 1)>>]
    /\ UNCHANGED <<stockDetailPage, detailFetches, detailFetchesStarted, appVars,
                   refreshVars, replaceVars, arrayVars, allocationVars>>

\* children.map is through: the call returns
renderStrategiesReturns ==
    /\ rendering.phase = "running"
    /\ LET top == rendering.calls[Len(rendering.calls)]
           below == SubSeq(rendering.calls, 1, Len(rendering.calls) - 1)
       IN /\ top.children = <<>>
          /\ rendering' = [rendering EXCEPT
                              !.calls = below,
                              !.phase = IF below = <<>> THEN "done" ELSE "running"]
    /\ UNCHANGED <<stockDetailPage, detailFetches, detailFetchesStarted, appVars,
                   refreshVars, replaceVars, arrayVars, allocationVars>>

NextRender ==
    \/ renderStrategiesCalled
    \/ renderStrategiesMaps
    \/ renderStrategiesReturns

SpecRender == InitRender /\ [][NextRender]_vars

\* a render is a synchronous call: it runs until it returns
FairRender == SpecRender /\ WF_vars(NextRender)

\* the strategies reachable from a top-level strategy by the parent links
RECURSIVE ReachableFrom(_, _)
ReachableFrom(strategyList, reached) ==
    LET more == reached \cup {s.id : s \in {t \in strategyList : t.parent_id \in reached}}
    IN IF more = reached THEN reached ELSE ReachableFrom(strategyList, more)
ReachableFromTop(strategyList) ==
    ReachableFrom(strategyList,
                  {s.id : s \in {t \in strategyList : t.parent_id = null}})

\* C30: renderStrategies terminates for every finite strategy list, lists with
\* parent_id cycles, self-parents or parent ids that are not in the list
\* included, and it renders exactly the strategies reachable from a top-level
\* strategy (parent_id null) by following the parent links.
C30_RenderTerminatesOnReachable ==
    /\ <>(rendering.phase = "done")
    /\ [](rendering.phase = "done" =>
             /\ {rendering.rows[i].id : i \in DOMAIN rendering.rows}
                    = ReachableFromTop(strategies)
             /\ Len(rendering.rows) = Cardinality(ReachableFromTop(strategies))
             /\ rendering.rows = renderRows(strategies, null, 0))

\* a render that returned over a list with a top-level strategy, a strategy
\* that is its own parent, and a strategy under a parent that is not in the list
C30_Witness ==
    /\ rendering.phase = "done"
    /\ rendering.rows # <<>>
    /\ \E s \in strategies : s.parent_id = s.id
    /\ \E s \in strategies : s.parent_id # null /\ s.parent_id \notin Ids(strategies)

====
